---- MODULE Spec2Model ----
(***************************************************************************)
(* SubprocessCLITransport of claude-agent-sdk-go: the transport lifecycle  *)
(* (Connect, Write, EndInput, IsReady, Close), its two locks, and the      *)
(* line-JSON framer run by the ReadMessages goroutine.                     *)
(*                                                                         *)
(* Bytes are modelled as one-character strings.  "{" and "}" are the JSON  *)
(* object delimiters, "a" stands for any other significant byte of a JSON  *)
(* text, " " is whitespace and "\n" is the line terminator.                *)
(***************************************************************************)
EXTENDS Integers, Sequences, FiniteSets, TLC

\* ------------------------------------------------------------------ bounds
MaxStreamLen == 6      \* longest stdout stream the framer specification draws
NumCallers == 2        \* goroutines calling the transport's methods
MaxCalls == 3          \* method calls started over a behaviour
MaxSpawn == 2          \* child processes spawned over a behaviour
DataLen == 2           \* bytes of one Write's data

\* ------------------------------------------------------- program constants
MsgChanCap == 10       \* make(chan map[string]interface{}, 10)
ErrChanCap == 1        \* make(chan error, 1)

NL == "\n"
SP == " "
Alphabet == {"{", "}", "a", SP, NL}

\* options.MaxBufferSize and options.ScannerInitialBufferSize are set by the
\* host; the model draws them from these sets.
BufferSizes == {3, 4}
ScannerSizes == {1, 6}
ExitCodes == {0, 2}
KilledExitCode == 0 - 1

Callers == 1 .. NumCallers
NoCall == [op |-> "none", val |-> "none"]

VARIABLES
    \* construction-time fields
    isStreaming, maxBufferSize, scannerInitialSize,
    \* fields of SubprocessCLITransport
    cmd, procStarted, processState, stdin, ready, exitError, tempFiles,
    \* locks
    mu, writeMu,
    \* operating-system objects: the child, the two pipes, temp files on disk
    child, exitCode, spawned, stdinOpen, stdinBytes, stdout, stdoutEOF, stdoutOpen,
    tempOnDisk,
    \* calling goroutines
    pc, wrote, calls, last,
    \* the goroutine Close starts to wait for the child, the signals Close
    \* has sent to it, and whether the ctx of a running Write is done
    waiter, signals, wctx,
    \* the ReadMessages goroutine
    rpc, readerChild, jsonBuffer, msgCh, msgRecv, errCh, stream,
    \* history
    phase, closeCount, spawnedAtClose, msgsAtEndInput, errsAtWrite, crashed,
    \* processQuery: the prompt, the registered hooks or SDK servers, ctx
    promptIsString, hasHooks, prompts, ctxDone,
    \* validateAndConfigurePermissions: its arguments and what it returned
    vcall, vret,
    \* processQuery: its position and its goroutines (EndInput, StreamInput,
    \* the parse-and-yield loop with the message it holds)
    qpc, epc, spc, ppc, held,
    \* the calls made on the Transport, in order
    tlog,
    \* the query handler: its message and error channels, firstResultChan,
    \* Close
    hMsgs, hMsgsClosed, hErrs, hErrFwd, firstResult, qClosed,
    \* the channels processQuery returns to the host
    hostMsgs, hostRecv, hostMsgsClosed, hostErrs, hostErrRecv, hostErrsClosed,
    \* the control multiplexer: the next request id, the pending table, what
    \* each request's awaiter got and how often, the envelopes written, whether
    \* the outbound channel was closed by fast-fail
    nextReq, pending, awaiter, resolved, sent, fastFailed,
    \* the child's side of the control protocol: the request ids its control
    \* responses carry, in the order written, the requests it has answered,
    \* whether it has written an oversized line
    respIds, answered, garbage,
    \* inbound control requests: the ids of those on their way to the
    \* dispatcher, and what became of each
    reqIds, task

tvars == <<isStreaming, maxBufferSize, scannerInitialSize,
           cmd, procStarted, processState, stdin, ready, exitError, tempFiles>>
lvars == <<mu, writeMu>>
evars == <<child, exitCode, spawned, stdinOpen, stdinBytes, stdout, stdoutEOF, stdoutOpen,
           tempOnDisk>>
cvars == <<pc, wrote, calls, last, waiter, signals, wctx>>
rvars == <<rpc, readerChild, jsonBuffer, msgCh, msgRecv, errCh, stream>>
hvars == <<phase, closeCount, spawnedAtClose, msgsAtEndInput, errsAtWrite, crashed>>
qcfg == <<promptIsString, hasHooks, vcall, vret>>
qmain == <<qpc, epc, spc, prompts, tlog>>
qpump == <<ppc, held>>
qhand == <<hMsgs, hMsgsClosed, hErrs, hErrFwd, firstResult, qClosed>>
qhost == <<hostMsgs, hostRecv, hostMsgsClosed, hostErrs, hostErrRecv, hostErrsClosed>>
qvars == <<qcfg, ctxDone, qmain, qpump, qhand, qhost>>
mvars == <<nextReq, pending, awaiter, resolved, sent, fastFailed>>
kvars == <<respIds, answered, garbage, reqIds, task>>
svars == <<qvars, mvars, kvars>>
vars == <<tvars, lvars, evars, cvars, rvars, hvars, svars>>

\* ------------------------------------------------------------ byte strings
Max(a, b) == IF a >= b THEN a ELSE b

\* Index of the first "\n" of s, or 0.
RECURSIVE IndexNL(_, _)
IndexNL(s, i) ==
    IF i > Len(s) THEN 0
    ELSE IF s[i] = NL THEN i ELSE IndexNL(s, i + 1)

\* bufio.ScanLines: the next line is what precedes the first "\n"; without a
\* "\n" it is the rest of the data, returned only at end of file.
ScanLine(s) == IF IndexNL(s, 1) = 0 THEN s ELSE SubSeq(s, 1, IndexNL(s, 1) - 1)
ScanRest(s) == IF IndexNL(s, 1) = 0 THEN <<>> ELSE SubSeq(s, IndexNL(s, 1) + 1, Len(s))

\* strings.TrimSpace
RECURSIVE TrimLeft(_)
TrimLeft(s) == IF s # <<>> /\ Head(s) = SP THEN TrimLeft(Tail(s)) ELSE s
RECURSIVE TrimRight(_)
TrimRight(s) ==
    IF s # <<>> /\ s[Len(s)] = SP THEN TrimRight(SubSeq(s, 1, Len(s) - 1)) ELSE s
TrimSpace(s) == TrimRight(TrimLeft(s))

\* Nesting depth after the first i bytes of s.
RECURSIVE Depth(_, _)
Depth(s, i) ==
    IF i = 0 THEN 0
    ELSE Depth(s, i - 1) + (IF s[i] = "{" THEN 1 ELSE IF s[i] = "}" THEN 0 - 1 ELSE 0)

\* json.Unmarshal(buf, &data) with data a map: succeeds exactly when buf is one
\* JSON object, surrounding whitespace allowed.
UnmarshalOK(buf) ==
    LET t == TrimSpace(buf) IN
    /\ Len(t) >= 2
    /\ t[1] = "{"
    /\ \A i \in 1 .. Len(t) : t[i] # NL
    /\ \A i \in 1 .. Len(t) - 1 : Depth(t, i) >= 1
    /\ Depth(t, Len(t)) = 0

\* The decoded value: the object's significant bytes (whitespace carries no
\* information in the decoded map).
RECURSIVE Significant(_)
Significant(s) ==
    IF s = <<>> THEN <<>>
    ELSE IF Head(s) \in {SP, NL} THEN Significant(Tail(s))
    ELSE <<Head(s)>> \o Significant(Tail(s))
Unmarshal(buf) == Significant(buf)

\* ------------------------------------------------------------------ errors
NilErr == [kind |-> "nil", code |-> 0]
ConnectionError == [kind |-> "ConnectionError", code |-> 0]
DecodeError == [kind |-> "CLIJSONDecodeError", code |-> 0]
ProcessError(c) == [kind |-> "ProcessError", code |-> c]

\* ------------------------------------------------------ the session layer
MaxRequests == 2       \* outbound control requests of a session
Requests == 1 .. MaxRequests
MaxInbound == 2        \* control requests the child makes in a session
InboundIds == 1 .. MaxInbound

\* No outbound control request was made.
NoMux ==
    /\ nextReq = 1 /\ pending = {}
    /\ awaiter = [r \in Requests |-> "none"]
    /\ resolved = [r \in Requests |-> 0]
    /\ sent = <<>> /\ fastFailed = FALSE
    /\ respIds = <<>> /\ answered = {} /\ garbage = FALSE
    /\ reqIds = <<>> /\ task = [i \in InboundIds |-> "none"]

\* ClaudeAgentOptions as validateAndConfigurePermissions sees them: whether
\* the pointer is nil, whether CanUseTool is set, PermissionPromptToolName
\* ("nil" when unset) and the rest of the fields.
MaxRest == 4
ToolNames == {"nil", "stdio", "mcp"}
OptionValues ==
    [isNil : {FALSE}, canUseTool : BOOLEAN, permissionPromptToolName : ToolNames,
     rest : 0 .. MaxRest]
NilOptions ==
    [isNil |-> TRUE, canUseTool |-> FALSE, permissionPromptToolName |-> "nil", rest |-> 0]
\* &ClaudeAgentOptions{}
EmptyOptions ==
    [isNil |-> FALSE, canUseTool |-> FALSE, permissionPromptToolName |-> "nil", rest |-> 0]

validateAnyMode(options, isStreamingArg) ==
    IF options.isNil
    THEN [options |-> EmptyOptions, err |-> "nil"]
    ELSE IF options.canUseTool
    THEN IF options.permissionPromptToolName # "nil"
         THEN [options |-> NilOptions,
               err |-> "can_use_tool callback cannot be used with permission_prompt_tool_name"]
         ELSE [options |-> [options EXCEPT !.permissionPromptToolName = "stdio"],
               err |-> "nil"]
    ELSE [options |-> options, err |-> "nil"]

\* validateAndConfigurePermissions(options, isStreaming): the options to use
\* and the error, helpers.go lines 87-111.
validateAndConfigurePermissions(options, isStreamingArg) ==
    IF options.isNil
    THEN [options |-> EmptyOptions, err |-> "nil"]
    ELSE IF options.canUseTool
    THEN IF ~isStreamingArg
         THEN [options |-> NilOptions, err |-> "can_use_tool callback requires streaming mode"]
         ELSE IF options.permissionPromptToolName # "nil"
         THEN [options |-> NilOptions,
               err |-> "can_use_tool callback cannot be used with permission_prompt_tool_name"]
         ELSE [options |-> [options EXCEPT !.permissionPromptToolName = "stdio"],
               err |-> "nil"]
    ELSE [options |-> options, err |-> "nil"]

\* No value returned yet.
NoResult == [done |-> FALSE, options |-> NilOptions, err |-> "nil"]

\* validateAndConfigurePermissions was not called.
NoValidation ==
    /\ vcall = [made |-> FALSE, options |-> NilOptions, isStreaming |-> FALSE]
    /\ vret = [done |-> FALSE, options |-> NilOptions, err |-> "nil",
               second |-> NoResult]

\* No query runs on the transport.
NoQuery ==
    /\ NoValidation
    /\ promptIsString = TRUE /\ hasHooks = FALSE /\ prompts = 0 /\ ctxDone = FALSE
    /\ qpc = "none" /\ epc = "none" /\ spc = "none" /\ ppc = "none" /\ held = <<>>
    /\ tlog = <<>>
    /\ hMsgs = <<>> /\ hMsgsClosed = FALSE /\ hErrs = <<>> /\ hErrFwd = 0
    /\ firstResult = FALSE /\ qClosed = FALSE
    /\ hostMsgs = <<>> /\ hostRecv = 0 /\ hostMsgsClosed = FALSE
    /\ hostErrs = <<>> /\ hostErrRecv = 0 /\ hostErrsClosed = FALSE

\* ---------------------------------------------- the ReadMessages goroutine
\* scanner.Buffer(buf, t.maxBufferSize) with cap(buf) = initialSize: the
\* scanner gives up (bufio.ErrTooLong) once a line without its terminator
\* fills the buffer, whose size never exceeds the larger of the two.
ScanLimit == Max(scannerInitialSize, maxBufferSize)
TooLong(line) == Len(line) >= ScanLimit

\* jsonBuffer.WriteString(jsonLine)
AccumulateLineOnly(buf, line) == line
Accumulate(buf, line) == buf \o line

\* jsonBuffer.Len() > t.maxBufferSize
OverflowsScanLimit(buf) == Len(buf) > ScanLimit
Overflows(buf) == Len(buf) > maxBufferSize

\* msgCh <- data blocks while the channel's buffer is full.
MsgChanHasRoom == Len(msgCh) - msgRecv < MsgChanCap

\* stdout, stdoutEOF and stdoutOpen describe the pipe the scanner reads
\* (t.stdout when the goroutine started): the current child's pipe, unless the
\* transport was connected again under a reader that is still scanning.
PipeIsCurrent == ~(rpc = "scan" /\ readerChild # spawned)

\* ReadMessages(ctx): makes the two channels and starts the goroutine.
ReadMessages ==
    /\ ~crashed
    /\ rpc = "idle"
    /\ spawned > 0
    /\ cmd = "set"
    /\ rpc' = "scan"
    /\ readerChild' = spawned
    /\ UNCHANGED <<jsonBuffer, msgCh, msgRecv, errCh, stream>>
    /\ UNCHANGED <<tvars, lvars, evars, cvars, hvars>>
    /\ UNCHANGED svars

\* scanner.Scan() fails with ErrTooLong; after the loop scanner.Err() is
\* non-nil: errCh <- ConnectionError, return.
ReaderScanTooLong ==
    /\ ~crashed
    /\ rpc = "scan"
    /\ stdout # <<>>
    /\ TooLong(ScanLine(stdout))
    /\ errCh' = Append(errCh, ConnectionError)
    /\ rpc' = "done"
    /\ UNCHANGED <<readerChild, jsonBuffer, msgCh, msgRecv, stream>>
    /\ UNCHANGED <<tvars, lvars, evars, cvars, hvars>>
    /\ UNCHANGED svars

\* The read end of stdout was closed under the scanner (cmd.Wait closes it):
\* the read fails, scanner.Err() is non-nil: errCh <- ConnectionError, return.
ReaderScanClosed ==
    /\ ~crashed
    /\ rpc = "scan"
    /\ ~stdoutOpen
    /\ errCh' = Append(errCh, ConnectionError)
    /\ rpc' = "done"
    /\ UNCHANGED <<readerChild, jsonBuffer, msgCh, msgRecv, stream>>
    /\ UNCHANGED <<tvars, lvars, evars, cvars, hvars>>
    /\ UNCHANGED svars

\* One iteration of `for scanner.Scan()`: a line is available once its "\n"
\* has arrived or the child has closed its end of the pipe.
ReaderScanLine ==
    /\ ~crashed
    /\ rpc = "scan"
    /\ ~ctxDone
    /\ stdout # <<>>
    /\ ~TooLong(ScanLine(stdout))
    /\ IndexNL(stdout, 1) # 0 \/ stdoutEOF
    /\ LET line == TrimSpace(ScanLine(stdout))
           buf == Accumulate(jsonBuffer, line)
       IN  IF line = <<>>
           THEN \* continue
                /\ UNCHANGED <<jsonBuffer, msgCh, errCh, rpc>>
           ELSE IF Overflows(buf)
           THEN /\ jsonBuffer' = buf
                /\ errCh' = Append(errCh, DecodeError)
                /\ rpc' = "done"
                /\ UNCHANGED msgCh
           ELSE IF UnmarshalOK(buf)
           THEN /\ MsgChanHasRoom
                /\ jsonBuffer' = <<>>
                /\ msgCh' = Append(msgCh, Unmarshal(buf))
                /\ UNCHANGED <<errCh, rpc>>
           ELSE \* keep accumulating
                /\ jsonBuffer' = buf
                /\ UNCHANGED <<msgCh, errCh, rpc>>
    /\ stdout' = ScanRest(stdout)
    /\ UNCHANGED <<readerChild, msgRecv, stream>>
    /\ UNCHANGED <<child, exitCode, spawned, stdinOpen, stdinBytes, stdoutEOF, stdoutOpen,
                   tempOnDisk>>
    /\ UNCHANGED <<tvars, lvars, cvars, hvars>>
    /\ UNCHANGED svars

\* scanner.Scan() returns false at end of file, scanner.Err() is nil.
ReaderScanEOFNoDrain ==
    /\ ~crashed
    /\ rpc = "scan"
    /\ stdoutEOF
    /\ rpc' = "wait"
    /\ UNCHANGED <<readerChild, jsonBuffer, msgCh, msgRecv, errCh, stream>>
    /\ UNCHANGED <<tvars, lvars, evars, cvars, hvars>>
    /\ UNCHANGED svars
ReaderScanEOF ==
    /\ ~crashed
    /\ rpc = "scan"
    /\ stdout = <<>>
    /\ stdoutEOF
    /\ rpc' = "wait"
    /\ UNCHANGED <<readerChild, jsonBuffer, msgCh, msgRecv, errCh, stream>>
    /\ UNCHANGED <<tvars, lvars, evars, cvars, hvars>>
    /\ UNCHANGED svars

\* exec.Cmd.Wait for the caller that collects the status: ProcessState is
\* set and the read end of the stdout pipe is closed.
WaitCollects == procStarted /\ ~processState

\* `if err := t.cmd.Wait(); err != nil`: t.cmd is read without a lock.  A nil
\* t.cmd is a nil-pointer dereference; a second Wait returns an error that is
\* no *exec.ExitError; the first Wait returns the exit status.
ReaderWait ==
    /\ ~crashed
    /\ rpc = "wait"
    /\ IF cmd = "nil"
       THEN /\ crashed' = TRUE
            /\ UNCHANGED <<rpc, processState, stdoutOpen, exitError>>
       ELSE IF ~WaitCollects
       THEN /\ rpc' = "done"
            /\ UNCHANGED <<crashed, processState, stdoutOpen, exitError>>
       ELSE /\ child # "running"
            /\ processState' = TRUE
            /\ stdoutOpen' = FALSE
            /\ IF exitCode # 0
               THEN exitError' = ProcessError(exitCode) /\ rpc' = "senderr"
               ELSE UNCHANGED exitError /\ rpc' = "done"
            /\ UNCHANGED crashed
    /\ UNCHANGED <<readerChild, jsonBuffer, msgCh, msgRecv, errCh, stream>>
    /\ UNCHANGED <<isStreaming, maxBufferSize, scannerInitialSize, cmd, procStarted,
                   stdin, ready, tempFiles>>
    /\ UNCHANGED <<child, exitCode, spawned, stdinOpen, stdinBytes, stdout, stdoutEOF,
                   tempOnDisk>>
    /\ UNCHANGED <<phase, closeCount, spawnedAtClose, msgsAtEndInput, errsAtWrite>>
    /\ UNCHANGED <<lvars, cvars>>
    /\ UNCHANGED svars

\* `errCh <- t.exitError`: the field is read again, without a lock.
ReaderSendExitError ==
    /\ ~crashed
    /\ rpc = "senderr"
    /\ errCh' = Append(errCh, exitError)
    /\ rpc' = "done"
    /\ UNCHANGED <<readerChild, jsonBuffer, msgCh, msgRecv, stream>>
    /\ UNCHANGED <<tvars, lvars, evars, cvars, hvars>>
    /\ UNCHANGED svars

\* The consumer of the message channel receives one message.
Receive ==
    /\ ~crashed
    /\ msgRecv < Len(msgCh)
    /\ msgRecv' = msgRecv + 1
    /\ UNCHANGED <<rpc, readerChild, jsonBuffer, msgCh, errCh, stream>>
    /\ UNCHANGED <<tvars, lvars, evars, cvars, hvars>>
    /\ UNCHANGED svars

\* The child process ends by itself.
ChildExit ==
    /\ ~crashed
    /\ child = "running"
    /\ child' = "exited"
    /\ \E c \in ExitCodes : exitCode' = c
    /\ stdoutEOF' = (IF PipeIsCurrent THEN TRUE ELSE stdoutEOF)
    /\ UNCHANGED <<spawned, stdinOpen, stdinBytes, stdout, stdoutOpen, tempOnDisk>>
    /\ UNCHANGED <<tvars, lvars, cvars, rvars, hvars>>
    /\ UNCHANGED svars

\* --------------------------------------------- the framer's specification
\* Streams of at most n bytes.
RECURSIVE Streams(_)
Streams(n) ==
    IF n = 0 THEN {<<>>}
    ELSE LET shorter == Streams(n - 1)
         IN  shorter \cup {Append(s, b) : s \in {t \in shorter : Len(t) = n - 1}, b \in Alphabet}

\* A connected transport whose child has written `stream` to stdout, with
\* ReadMessages started.
InitFramer ==
    /\ isStreaming = TRUE
    /\ maxBufferSize \in BufferSizes
    /\ scannerInitialSize \in ScannerSizes
    /\ cmd = "set" /\ procStarted = TRUE /\ processState = FALSE
    /\ stdin = "pipe" /\ ready = TRUE /\ exitError = NilErr /\ tempFiles = 0
    /\ mu = 0 /\ writeMu = 0
    /\ child = "running" /\ exitCode = 0 /\ spawned = 1
    /\ stdinOpen = TRUE /\ stdinBytes = <<>>
    /\ stream \in Streams(MaxStreamLen)
    /\ stdout = stream
    /\ stdoutEOF = FALSE /\ stdoutOpen = TRUE /\ tempOnDisk = 0
    /\ pc = [c \in Callers |-> "idle"]
    /\ last = NoCall
    /\ wrote = [c \in Callers |-> 0]
    /\ calls = 0
    /\ waiter = "none" /\ signals = <<>> /\ wctx = [c \in Callers |-> FALSE]
    /\ rpc = "scan" /\ readerChild = 1 /\ jsonBuffer = <<>> /\ msgCh = <<>> /\ msgRecv = 0 /\ errCh = <<>>
    /\ phase = "ready" /\ closeCount = 0 /\ spawnedAtClose = 0 /\ msgsAtEndInput = 0 - 1
    /\ errsAtWrite = 0 - 1
    /\ crashed = FALSE
    /\ NoQuery
    /\ NoMux

\* The reader alone with its consumer and the child: no caller closes the
\* transport, so the stdout pipe is never closed under the scanner.
NextFramer ==
    \/ ReaderScanTooLong
    \/ ReaderScanLine
    \/ ReaderScanEOF
    \/ ReaderWait
    \/ ReaderSendExitError
    \/ Receive
    \/ ChildExit

SpecFramer == InitFramer /\ [][NextFramer]_vars

\* ------------------------------------------------- the calling goroutines
\* What the child of the transport specification writes to stdout.
MainStreams == {<<"{", "}", NL>>}

Idle(c) == ~crashed /\ pc[c] = "idle" /\ calls < MaxCalls

\* The call of caller c returns: `last` keeps the method and its result.
Return(c, method, value) ==
    /\ pc' = [pc EXCEPT ![c] = "idle"]
    /\ last' = [op |-> method, val |-> value]

\* Connect(ctx), under mu from its first line to its return.  buildCommand
\* may record one temp file.  The outcomes are the returns of the code:
\* "build" (version check or buildCommand fails, t.cmd stays nil), "cwd"
\* (t.cmd set, os.Stat finds no working directory), "stdin" (t.cmd set,
\* StdinPipe fails), "pipe" (t.stdin set, StdoutPipe or StderrPipe fails),
\* "start" (cmd.Start fails) and "ok".
ConnectOutcomes == {"build", "cwd", "stdin", "pipe", "start", "ok"}

SpawnsOnceCmdSet(outcome) == outcome \in {"cwd", "ok"}

\* cmd.Start() is reached and succeeds only on the last path, line 423.
Spawns(outcome) == outcome = "ok"

\* t.ready = true is the last statement before the successful return, line 439.
ConnectReady(outcome) == outcome = "ok"

\* What Connect returns on each path.
ConnectResult(outcome) ==
    IF outcome = "ok" THEN "nil"
    ELSE IF outcome = "build" THEN "error"
    ELSE "ConnectionError"

\* The body of Connect on a transport without a command, lines 378-440.
ConnectRun(c, outcome, files) ==
    /\ outcome = "ok" => spawned < MaxSpawn
    /\ outcome = "build" => files = 0
    /\ cmd' = IF outcome = "build" THEN "nil" ELSE "set"
    /\ tempFiles' = tempFiles + files
    /\ tempOnDisk' = tempOnDisk + files
    /\ stdin' = IF outcome \in {"pipe", "start", "ok"} THEN "pipe" ELSE stdin
    /\ stdinOpen' = IF outcome \in {"pipe", "start"} THEN TRUE
                    ELSE IF outcome = "ok" THEN isStreaming
                    ELSE stdinOpen
    /\ exitError' = IF outcome = "start" THEN ConnectionError ELSE exitError
    /\ ready' = IF ConnectReady(outcome) THEN TRUE ELSE ready
    /\ procStarted' = Spawns(outcome)
    /\ processState' = FALSE
    /\ IF Spawns(outcome)
       THEN /\ child' = "running"
            /\ exitCode' = 0
            /\ spawned' = spawned + 1
            /\ stdinBytes' = <<>>
            /\ IF rpc = "scan"
               THEN UNCHANGED <<stdout, stdoutEOF, stdoutOpen, stream>>
               ELSE /\ stream' \in MainStreams
                    /\ stdout' = stream'
                    /\ stdoutEOF' = FALSE
                    /\ stdoutOpen' = TRUE
       ELSE UNCHANGED <<child, exitCode, spawned, stdinBytes, stdout, stdoutEOF,
                        stdoutOpen, stream>>
    /\ phase' = IF outcome = "ok" THEN "ready"
                ELSE IF phase \in {"uninit", "closed"} THEN "failed"
                ELSE phase
    /\ Return(c, "Connect", ConnectResult(outcome))
    /\ UNCHANGED <<isStreaming, maxBufferSize, scannerInitialSize>>
    /\ UNCHANGED <<rpc, readerChild, jsonBuffer, msgCh, msgRecv, errCh>>
    /\ UNCHANGED <<closeCount, spawnedAtClose, msgsAtEndInput, errsAtWrite, crashed>>

Connect(c) ==
    /\ Idle(c)
    /\ mu = 0
    /\ calls' = calls + 1
    /\ IF cmd # "nil"
       THEN \* already connected
            /\ Return(c, "Connect", "nil")
            /\ UNCHANGED <<tvars, evars, rvars, hvars>>
       ELSE \E outcome \in ConnectOutcomes, files \in 0 .. 1 :
                ConnectRun(c, outcome, files)
    /\ UNCHANGED <<lvars, wrote, waiter, signals, wctx>>
    /\ UNCHANGED svars

\* IsReady(), under mu.RLock.
IsReady(c) ==
    /\ Idle(c)
    /\ mu = 0
    /\ calls' = calls + 1
    /\ Return(c, "IsReady", IF ready THEN "true" ELSE "false")
    /\ UNCHANGED <<tvars, lvars, evars, rvars, hvars, wrote, waiter, signals, wctx>>
    /\ UNCHANGED svars

\* Write, lines 786-801: the checks under mu.RLock.  t.cmd is dereferenced
\* for its ProcessState.
WriteAcceptedNoExitCheck ==
    /\ ready
    /\ stdin # "nil"
WriteAcceptedReadyOnly ==
    /\ ready
    /\ ~processState
    /\ exitError = NilErr
WriteAccepted ==
    /\ ready
    /\ stdin # "nil"
    /\ ~processState
    /\ exitError = NilErr

MuKeptAfterCheck(c) == c

\* Write, line 801: t.mu.RUnlock() ends the checks, before t.writeMu.Lock()
\* of line 804: the caller holds no lock when it asks for the write mutex.
MuAfterCheck(c) == 0

WriteCheck(c) ==
    /\ Idle(c)
    /\ mu = 0
    /\ calls' = calls + 1
    /\ IF ready /\ stdin # "nil" /\ cmd = "nil"
       THEN /\ crashed' = TRUE
            /\ last' = [op |-> "Write", val |-> "panic"]
            /\ UNCHANGED <<pc, wctx, mu>>
       ELSE IF WriteAccepted
       THEN /\ pc' = [pc EXCEPT ![c] = "w_lock"]
            /\ \E done \in BOOLEAN : wctx' = [wctx EXCEPT ![c] = done]
            /\ mu' = MuAfterCheck(c)
            /\ UNCHANGED <<last, crashed>>
       ELSE /\ Return(c, "Write", "ConnectionError")
            /\ UNCHANGED <<crashed, wctx, mu>>
    /\ errsAtWrite' = Len(errCh)
    /\ UNCHANGED <<phase, closeCount, spawnedAtClose, msgsAtEndInput>>
    /\ UNCHANGED <<tvars, writeMu, evars, rvars, wrote, waiter, signals>>
    /\ UNCHANGED svars

\* t.writeMu.Lock()
WriteLockNoMutex(c) ==
    /\ ~crashed
    /\ pc[c] = "w_lock"
    /\ writeMu' = c
    /\ pc' = [pc EXCEPT ![c] = "w_write"]
    /\ UNCHANGED <<mu, wrote, calls, last, waiter, signals, wctx>>
    /\ UNCHANGED <<tvars, evars, rvars, hvars>>
    /\ UNCHANGED svars
WriteLock(c) ==
    /\ ~crashed
    /\ pc[c] = "w_lock"
    /\ writeMu = 0
    /\ writeMu' = c
    /\ pc' = [pc EXCEPT ![c] = "w_write"]
    /\ UNCHANGED <<mu, wrote, calls, last, waiter, signals, wctx>>
    /\ UNCHANGED <<tvars, evars, rvars, hvars>>
    /\ UNCHANGED svars

\* The pipe takes bytes while our end is open and the child lives.
StdinWritable == stdinOpen /\ child = "running"

\* The ctx of Write takes no part in it (line 784 is its only mention): a
\* Write that wrote all its bytes returns nil whatever ctx says.
WriteResult(ctxIsDone) == "nil"

\* t.stdin.Write([]byte(data)), one byte a step, under writeMu.  t.stdin is
\* read here for the first time since the check: a nil handle is a nil
\* dereference.  A write error leads to the error path.
WriteBytes(c) ==
    /\ ~crashed
    /\ pc[c] = "w_write"
    /\ IF stdin = "nil"
       THEN /\ crashed' = TRUE
            /\ last' = [op |-> "Write", val |-> "panic"]
            /\ UNCHANGED <<pc, wrote, stdinBytes, writeMu, wctx>>
       ELSE IF ~StdinWritable
       THEN /\ pc' = [pc EXCEPT ![c] = "w_err"]
            /\ wrote' = [wrote EXCEPT ![c] = 0]
            /\ UNCHANGED <<last, stdinBytes, writeMu, crashed, wctx>>
       ELSE /\ stdinBytes' = Append(stdinBytes, <<c, wrote[c] + 1>>)
            /\ IF wrote[c] + 1 = DataLen
               THEN /\ Return(c, "Write", WriteResult(wctx[c]))
                    /\ writeMu' = 0
                    /\ wrote' = [wrote EXCEPT ![c] = 0]
                    /\ wctx' = [wctx EXCEPT ![c] = FALSE]
               ELSE /\ wrote' = [wrote EXCEPT ![c] = wrote[c] + 1]
                    /\ UNCHANGED <<pc, last, writeMu, wctx>>
            /\ UNCHANGED crashed
    /\ UNCHANGED <<phase, closeCount, spawnedAtClose, msgsAtEndInput, errsAtWrite>>
    /\ UNCHANGED <<child, exitCode, spawned, stdinOpen, stdout, stdoutEOF, stdoutOpen,
                   tempOnDisk>>
    /\ UNCHANGED <<tvars, mu, rvars, calls, waiter, signals>>
    /\ UNCHANGED svars

\* Write, lines 808-814: the error path takes mu while holding writeMu.
WriteFail(c) ==
    /\ ~crashed
    /\ pc[c] = "w_err"
    /\ mu = 0
    /\ ready' = FALSE
    /\ exitError' = ConnectionError
    /\ writeMu' = 0
    /\ Return(c, "Write", "ConnectionError")
    /\ wctx' = [wctx EXCEPT ![c] = FALSE]
    /\ UNCHANGED <<isStreaming, maxBufferSize, scannerInitialSize, cmd, procStarted,
                   processState, stdin, tempFiles>>
    /\ UNCHANGED <<mu, evars, rvars, hvars, wrote, calls, waiter, signals>>
    /\ UNCHANGED svars

\* EndInput: t.writeMu.Lock()
EndInputLock(c) ==
    /\ Idle(c)
    /\ writeMu = 0
    /\ calls' = calls + 1
    /\ writeMu' = c
    /\ pc' = [pc EXCEPT ![c] = "e_body"]
    /\ UNCHANGED <<mu, wrote, last, waiter, signals, wctx>>
    /\ UNCHANGED <<tvars, evars, rvars, hvars>>
    /\ UNCHANGED svars

\* EndInput: t.mu.Lock() to the return.
EndInputBody(c) ==
    /\ ~crashed
    /\ pc[c] = "e_body"
    /\ mu = 0
    /\ IF stdin # "nil"
       THEN /\ Return(c, "EndInput", IF stdinOpen THEN "nil" ELSE "error")
            /\ stdinOpen' = FALSE
            /\ stdin' = "nil"
       ELSE /\ Return(c, "EndInput", "nil")
            /\ UNCHANGED <<stdinOpen, stdin>>
    /\ writeMu' = 0
    /\ phase' = IF phase = "ready" THEN "draining" ELSE phase
    /\ msgsAtEndInput' = IF phase = "ready" THEN Len(msgCh) ELSE msgsAtEndInput
    /\ UNCHANGED <<isStreaming, maxBufferSize, scannerInitialSize, cmd, procStarted,
                   processState, ready, exitError, tempFiles>>
    /\ UNCHANGED <<child, exitCode, spawned, stdinBytes, stdout, stdoutEOF, stdoutOpen,
                   tempOnDisk>>
    /\ UNCHANGED <<closeCount, spawnedAtClose, errsAtWrite, crashed>>
    /\ UNCHANGED <<mu, rvars, wrote, calls, waiter, signals, wctx>>
    /\ UNCHANGED svars

\* Close: t.writeMu.Lock()
CloseLock(c) ==
    /\ Idle(c)
    /\ writeMu = 0
    /\ calls' = calls + 1
    /\ writeMu' = c
    /\ pc' = [pc EXCEPT ![c] = "c_body"]
    /\ UNCHANGED <<mu, wrote, last, waiter, signals, wctx>>
    /\ UNCHANGED <<tvars, evars, rvars, hvars>>
    /\ UNCHANGED svars

\* What every return of Close records.
Closed ==
    /\ phase' = "closed"
    /\ closeCount' = IF closeCount < 2 THEN closeCount + 1 ELSE closeCount
    /\ spawnedAtClose' = IF closeCount = 0 THEN spawned ELSE spawnedAtClose
    /\ UNCHANGED <<msgsAtEndInput, errsAtWrite, crashed>>

\* `return nil`: Close returns nil on both paths; the results of
\* t.stdin.Close(), Process.Kill() and t.cmd.Wait() are dropped.
CloseResultOfWait == IF exitCode # 0 THEN "error" ELSE "nil"
CloseResult == "nil"

NeverStarted == ~procStarted

\* Close, line 954: t.cmd.Process.Kill() is the first signal a running child
\* gets; it cannot be caught or ignored.
FirstSignal == "kill"

\* Close, lines 942-944: `if t.cmd == nil { return nil }`, before any cleanup.
NeverConnected == cmd = "nil"

\* Close, lines 937-963: t.mu.Lock(), ready = false, the early return when
\* never connected, closing stdin, Process.Kill() and starting cmd.Wait().
CloseBody(c) ==
    /\ ~crashed
    /\ pc[c] = "c_body"
    /\ mu = 0
    /\ ready' = FALSE
    /\ IF NeverConnected
       THEN /\ Return(c, "Close", CloseResult)
            /\ writeMu' = 0
            /\ Closed
            /\ UNCHANGED <<mu, stdin, stdinOpen, child, exitCode, stdoutEOF, waiter,
                           signals>>
       ELSE /\ mu' = c
            /\ stdin' = "nil"
            /\ stdinOpen' = FALSE
            /\ IF procStarted /\ ~processState /\ child = "running"
               THEN /\ child' = "exited"
                    /\ exitCode' = KilledExitCode
                    /\ stdoutEOF' = (IF PipeIsCurrent THEN TRUE ELSE stdoutEOF)
                    /\ signals' = Append(signals, FirstSignal)
               ELSE UNCHANGED <<child, exitCode, stdoutEOF, signals>>
            /\ IF procStarted
               THEN waiter' = "run" /\ pc' = [pc EXCEPT ![c] = "c_wait"]
               ELSE UNCHANGED waiter /\ pc' = [pc EXCEPT ![c] = "c_finish"]
            /\ UNCHANGED <<writeMu, last, hvars>>
    /\ UNCHANGED <<isStreaming, maxBufferSize, scannerInitialSize, cmd, procStarted,
                   processState, exitError, tempFiles>>
    /\ UNCHANGED <<spawned, stdinBytes, stdout, stdoutOpen, tempOnDisk>>
    /\ UNCHANGED <<rvars, wrote, calls, wctx>>
    /\ UNCHANGED svars

\* The goroutine of Close, lines 960-963: t.cmd.Wait(); close(done).  t.cmd
\* is read when the goroutine runs.
CloseWaiter ==
    /\ ~crashed
    /\ waiter = "run"
    /\ IF cmd = "nil"
       THEN /\ crashed' = TRUE
            /\ UNCHANGED <<waiter, processState, stdoutOpen>>
       ELSE IF WaitCollects
       THEN /\ child # "running"
            /\ processState' = TRUE
            /\ stdoutOpen' = (IF PipeIsCurrent THEN FALSE ELSE stdoutOpen)
            /\ waiter' = "done"
            /\ UNCHANGED crashed
       ELSE /\ waiter' = "done"
            /\ UNCHANGED <<crashed, processState, stdoutOpen>>
    /\ UNCHANGED <<isStreaming, maxBufferSize, scannerInitialSize, cmd, procStarted,
                   stdin, ready, exitError, tempFiles>>
    /\ UNCHANGED <<child, exitCode, spawned, stdinOpen, stdinBytes, stdout, stdoutEOF,
                   tempOnDisk>>
    /\ UNCHANGED <<phase, closeCount, spawnedAtClose, msgsAtEndInput, errsAtWrite>>
    /\ UNCHANGED <<lvars, rvars, pc, wrote, calls, last, signals, wctx>>
    /\ UNCHANGED svars

\* Close, lines 966-968: <-done.
CloseWaitDone(c) ==
    /\ ~crashed
    /\ pc[c] = "c_wait"
    /\ waiter = "done"
    /\ pc' = [pc EXCEPT ![c] = "c_finish"]
    /\ UNCHANGED <<wrote, calls, last, waiter, signals, wctx>>
    /\ UNCHANGED <<tvars, lvars, evars, rvars, hvars>>
    /\ UNCHANGED svars

\* Close, lines 969-974: two seconds passed; Process.Signal(os.Kill) on the
\* child that Kill has already ended changes nothing.
CloseWaitTimeout(c) ==
    /\ ~crashed
    /\ pc[c] = "c_wait"
    /\ waiter = "run"
    /\ pc' = [pc EXCEPT ![c] = "c_finish"]
    /\ signals' = Append(signals, "kill")
    /\ UNCHANGED <<wrote, calls, last, waiter, wctx>>
    /\ UNCHANGED <<tvars, lvars, evars, rvars, hvars>>
    /\ UNCHANGED svars

\* Close, lines 977-1001: the stderr wait changes no state; temp files are
\* removed, cmd and exitError reset, both locks released.
CloseFinish(c) ==
    /\ ~crashed
    /\ pc[c] = "c_finish"
    /\ tempOnDisk' = tempOnDisk - tempFiles
    /\ tempFiles' = 0
    /\ cmd' = "nil"
    /\ procStarted' = FALSE
    /\ processState' = FALSE
    /\ exitError' = NilErr
    /\ mu' = 0
    /\ writeMu' = 0
    /\ Return(c, "Close", CloseResult)
    /\ waiter' = IF waiter = "done" THEN "none" ELSE waiter
    /\ signals' = <<>>
    /\ Closed
    /\ UNCHANGED <<isStreaming, maxBufferSize, scannerInitialSize, stdin, ready>>
    /\ UNCHANGED <<child, exitCode, spawned, stdinOpen, stdinBytes, stdout, stdoutEOF,
                   stdoutOpen>>
    /\ UNCHANGED <<rvars, wrote, calls, wctx>>
    /\ UNCHANGED svars

\* ------------------------------------------ the transport's specification
\* NewSubprocessCLITransport: nothing connected; isStreaming tells a prompt
\* channel from a prompt string.
Init ==
    /\ isStreaming \in BOOLEAN
    /\ maxBufferSize \in {n \in BufferSizes : \A m \in BufferSizes : m <= n}
    /\ scannerInitialSize \in {n \in ScannerSizes : \A m \in ScannerSizes : m <= n}
    /\ cmd = "nil" /\ procStarted = FALSE /\ processState = FALSE
    /\ stdin = "nil" /\ ready = FALSE /\ exitError = NilErr /\ tempFiles = 0
    /\ mu = 0 /\ writeMu = 0
    /\ child = "none" /\ exitCode = 0 /\ spawned = 0
    /\ stdinOpen = FALSE /\ stdinBytes = <<>>
    /\ stream = <<>> /\ stdout = <<>>
    /\ stdoutEOF = FALSE /\ stdoutOpen = FALSE /\ tempOnDisk = 0
    /\ pc = [c \in Callers |-> "idle"]
    /\ last = NoCall
    /\ wrote = [c \in Callers |-> 0]
    /\ calls = 0
    /\ waiter = "none" /\ signals = <<>> /\ wctx = [c \in Callers |-> FALSE]
    /\ rpc = "idle" /\ readerChild = 0 /\ jsonBuffer = <<>> /\ msgCh = <<>> /\ msgRecv = 0
    /\ errCh = <<>>
    /\ phase = "uninit" /\ closeCount = 0 /\ spawnedAtClose = 0 /\ msgsAtEndInput = 0 - 1
    /\ errsAtWrite = 0 - 1
    /\ crashed = FALSE
    /\ NoQuery
    /\ NoMux

Next ==
    \/ \E c \in Callers :
        \/ Connect(c)
        \/ IsReady(c)
        \/ WriteCheck(c)
        \/ WriteLock(c)
        \/ WriteBytes(c)
        \/ WriteFail(c)
        \/ EndInputLock(c)
        \/ EndInputBody(c)
        \/ CloseLock(c)
        \/ CloseBody(c)
        \/ CloseWaitDone(c)
        \/ CloseWaitTimeout(c)
        \/ CloseFinish(c)
    \/ CloseWaiter
    \/ ReadMessages
    \/ ReaderScanClosed
    \/ ReaderScanLine
    \/ ReaderScanEOF
    \/ ReaderWait
    \/ ReaderSendExitError
    \/ Receive
    \/ ChildExit

Spec == Init /\ [][Next]_vars

\* ------------------------------------------------------------ processQuery
MaxPrompts == 1        \* messages the host sends on the prompt channel

HandlerBufferSize == 100   \* bufferSize := 100
HostMsgCap == 10           \* make(chan Message, 10)
HostErrCap == 1            \* make(chan error, 1)

\* The messages of the child, told apart by what the session does with
\* them: a conversation message, a `result` message, a conversation message
\* that violates the message schema, and a control envelope.
ConvMsg == <<"{", "}">>
ResultMsg == <<"{", "a", "}">>
BadMsg == <<"{", "{", "}", "}">>
ControlMsg == <<"{", "a", "a", "}">>

Canceled == [kind |-> "Canceled", code |-> 0]
MessageParseError == [kind |-> "MessageParseError", code |-> 0]

\* parseMessage(data) returns an error.
ParseFails(data) == data = BadMsg

\* parseMessage(data): the typed message made of a decoded object.
parseMessage(data) ==
    [type |-> IF data = ResultMsg THEN "result" ELSE "assistant", data |-> data]

\* What the child of a query writes to stdout.
QueryStreams ==
    { ConvMsg \o <<NL>> \o ResultMsg \o <<NL>>,
      BadMsg \o <<NL>> \o ConvMsg \o <<NL>>,
      ControlMsg \o <<NL>> \o ConvMsg \o <<NL>> \o ResultMsg \o <<NL>> }

\* processQuery after chosenTransport.Connect(ctx) and q.Start(ctx) have
\* returned nil: the child runs and the transport's reader is scanning.
InitQuery ==
    /\ isStreaming = TRUE
    /\ maxBufferSize \in {n \in BufferSizes : \A m \in BufferSizes : m <= n}
    /\ scannerInitialSize \in {n \in ScannerSizes : \A m \in ScannerSizes : m <= n}
    /\ cmd = "set" /\ procStarted = TRUE /\ processState = FALSE
    /\ stdin = "pipe" /\ ready = TRUE /\ exitError = NilErr /\ tempFiles = 0
    /\ mu = 0 /\ writeMu = 0
    /\ child = "running" /\ exitCode = 0 /\ spawned = 1
    /\ stdinOpen = TRUE /\ stdinBytes = <<>>
    /\ stream \in QueryStreams
    /\ stdout = stream
    /\ stdoutEOF = FALSE /\ stdoutOpen = TRUE /\ tempOnDisk = 0
    /\ pc = [c \in Callers |-> "idle"]
    /\ last = NoCall
    /\ wrote = [c \in Callers |-> 0]
    /\ calls = 0
    /\ waiter = "none" /\ signals = <<>> /\ wctx = [c \in Callers |-> FALSE]
    /\ rpc = "scan" /\ readerChild = 1 /\ jsonBuffer = <<>> /\ msgCh = <<>> /\ msgRecv = 0
    /\ errCh = <<>>
    /\ phase = "ready" /\ closeCount = 0 /\ spawnedAtClose = 0 /\ msgsAtEndInput = 0 - 1
    /\ errsAtWrite = 0 - 1
    /\ crashed = FALSE
    /\ NoValidation
    /\ promptIsString \in BOOLEAN
    /\ hasHooks \in BOOLEAN
    /\ prompts = IF promptIsString THEN 0 ELSE MaxPrompts
    /\ ctxDone = FALSE
    /\ qpc = "started" /\ epc = "none" /\ spc = "none" /\ ppc = "none" /\ held = <<>>
    /\ tlog = <<>>
    /\ hMsgs = <<>> /\ hMsgsClosed = FALSE /\ hErrs = <<>> /\ hErrFwd = 0
    /\ firstResult = FALSE /\ qClosed = FALSE
    /\ hostMsgs = <<>> /\ hostRecv = 0 /\ hostMsgsClosed = FALSE
    /\ hostErrs = <<>> /\ hostErrRecv = 0 /\ hostErrsClosed = FALSE
    /\ NoMux

tuntouched == <<tvars, lvars, evars, cvars, hvars, kvars>>
muntouched == <<tuntouched, mvars>>

\* `if _, err := q.Initialize(ctx); err != nil { return nil, nil, err }`: the
\* handler writes the initialize request and waits for its response.
QueryInitialize ==
    /\ qpc = "started"
    /\ \E ok \in BOOLEAN :
        IF ok
        THEN tlog' = Append(tlog, "initialize") /\ qpc' = "initialized"
        ELSE \E written \in BOOLEAN :
                /\ tlog' = IF written THEN Append(tlog, "initialize") ELSE tlog
                /\ qpc' = "init_failed"
    /\ UNCHANGED <<epc, spc, prompts>>
    /\ UNCHANGED <<qcfg, ctxDone, qpump, qhand, qhost, muntouched, rvars>>

\* The string prompt: chosenTransport.Write(ctx, user message), the return
\* on its error, then the EndInput goroutine, the two channels and the
\* parse-and-yield goroutine are started and the channels returned.
QueryWriteUserEarly ==
    /\ qpc \in {"started", "initialized"}
    /\ promptIsString
    /\ \E ok \in BOOLEAN :
        IF ok
        THEN /\ tlog' = Append(tlog, "user")
             /\ epc' = "start"
             /\ ppc' = "select"
             /\ qpc' = "returned"
        ELSE /\ qpc' = "write_failed"
             /\ UNCHANGED <<tlog, epc, ppc>>
    /\ UNCHANGED <<spc, prompts, held>>
    /\ UNCHANGED <<qcfg, ctxDone, qhand, qhost, muntouched, rvars>>
QueryWriteUser ==
    /\ qpc = "initialized"
    /\ promptIsString
    /\ \E ok \in BOOLEAN :
        IF ok
        THEN /\ tlog' = Append(tlog, "user")
             /\ epc' = "start"
             /\ ppc' = "select"
             /\ qpc' = "returned"
        ELSE /\ qpc' = "write_failed"
             /\ UNCHANGED <<tlog, epc, ppc>>
    /\ UNCHANGED <<spc, prompts, held>>
    /\ UNCHANGED <<qcfg, ctxDone, qhand, qhost, muntouched, rvars>>

\* The channel prompt: `go func() { q.StreamInput(ctx, promptChan) }()`, then
\* the channels and the parse-and-yield goroutine.
QueryStartStream ==
    /\ qpc = "initialized"
    /\ ~promptIsString
    /\ spc' = "run"
    /\ ppc' = "select"
    /\ qpc' = "returned"
    /\ UNCHANGED <<epc, prompts, tlog, held>>
    /\ UNCHANGED <<qcfg, ctxDone, qhand, qhost, muntouched, rvars>>

\* The EndInput goroutine waits for q.firstResultChan only when a hook or an
\* SDK MCP server is registered.
EndInputAtOnce == TRUE
EndInputReady == ~hasHooks \/ firstResult

\* `chosenTransport.EndInput()`
QueryEndInput ==
    /\ epc = "start"
    /\ EndInputReady
    /\ tlog' = Append(tlog, "endinput")
    /\ epc' = "done"
    /\ UNCHANGED <<qpc, spc, prompts>>
    /\ UNCHANGED <<qcfg, ctxDone, qpump, qhand, qhost, muntouched, rvars>>

\* `case <-ctx.Done(): return`
QueryEndInputCanceled ==
    /\ epc = "start"
    /\ hasHooks
    /\ ctxDone
    /\ epc' = "done"
    /\ UNCHANGED <<qpc, spc, prompts, tlog>>
    /\ UNCHANGED <<qcfg, ctxDone, qpump, qhand, qhost, muntouched, rvars>>

\* StreamInput(ctx, promptChan) writes each message of the prompt channel to
\* the transport and ends when the host closes the channel.
StreamWrite ==
    /\ spc = "run"
    /\ prompts > 0
    /\ ~ctxDone
    /\ prompts' = prompts - 1
    /\ tlog' = Append(tlog, "user")
    /\ UNCHANGED <<qpc, epc, spc>>
    /\ UNCHANGED <<qcfg, ctxDone, qpump, qhand, qhost, muntouched, rvars>>
StreamEnd ==
    /\ spc = "run"
    /\ prompts = 0 \/ ctxDone
    /\ spc' = "done"
    /\ UNCHANGED <<qpc, epc, prompts, tlog>>
    /\ UNCHANGED <<qcfg, ctxDone, qpump, qhand, qhost, muntouched, rvars>>

\* `case <-ctx.Done(): return` at the head of the reader's loop body: the
\* line just scanned is dropped.
ReaderCtxDone ==
    /\ ~crashed
    /\ rpc = "scan"
    /\ ctxDone
    /\ stdout # <<>>
    /\ ~TooLong(ScanLine(stdout))
    /\ IndexNL(stdout, 1) # 0 \/ stdoutEOF
    /\ stdout' = ScanRest(stdout)
    /\ rpc' = "done"
    /\ UNCHANGED <<readerChild, jsonBuffer, msgCh, msgRecv, errCh, stream>>
    /\ UNCHANGED <<child, exitCode, spawned, stdinOpen, stdinBytes, stdoutEOF, stdoutOpen,
                   tempOnDisk>>
    /\ UNCHANGED <<tvars, lvars, cvars, hvars>>
    /\ UNCHANGED svars

\* The query handler's routing of what the transport emits: a control
\* envelope is consumed, anything else goes to the conversation-message
\* channel; the first `result` message signals firstResultChan.
IsControl(m) == m = ControlMsg

\* The awaiter of request r is resolved with an outcome and its entry leaves
\* the pending table.
Resolve(rs, outcome) ==
    /\ pending' = pending \ rs
    /\ awaiter' = [r \in Requests |-> IF r \in rs THEN outcome ELSE awaiter[r]]
    /\ resolved' = [r \in Requests |-> IF r \in rs THEN resolved[r] + 1 ELSE resolved[r]]

\* A control_response is delivered to the entry of its id; one whose id is
\* not in the pending table is logged and dropped.
AwaitsAny(r) == TRUE
Awaits(r) == r \in pending

HandlerRoute ==
    /\ ~crashed
    /\ ~qClosed
    /\ msgRecv < Len(msgCh)
    /\ LET m == msgCh[msgRecv + 1]
       IN  /\ msgRecv' = msgRecv + 1
           /\ IF IsControl(m)
              THEN /\ IF respIds # <<>>
                      THEN /\ respIds' = Tail(respIds)
                           /\ IF Awaits(Head(respIds))
                              THEN Resolve({Head(respIds)}, "response")
                              ELSE UNCHANGED <<pending, awaiter, resolved>>
                           /\ UNCHANGED <<reqIds, task>>
                      ELSE IF reqIds # <<>>
                      THEN \* a control_request: handed to the dispatcher on
                           \* a task of its own
                           /\ reqIds' = Tail(reqIds)
                           /\ task' = [task EXCEPT ![Head(reqIds)] = "handling"]
                           /\ UNCHANGED <<pending, awaiter, resolved, respIds>>
                      ELSE UNCHANGED <<pending, awaiter, resolved, respIds, reqIds, task>>
                   /\ UNCHANGED <<hMsgs, firstResult>>
              ELSE /\ Len(hMsgs) < HandlerBufferSize
                   /\ hMsgs' = Append(hMsgs, m)
                   /\ firstResult' = (firstResult \/ m = ResultMsg)
                   /\ UNCHANGED <<pending, awaiter, resolved, respIds, reqIds, task>>
    /\ UNCHANGED <<rpc, readerChild, jsonBuffer, msgCh, errCh, stream>>
    /\ UNCHANGED <<hMsgsClosed, hErrs, hErrFwd, qClosed>>
    /\ UNCHANGED <<nextReq, sent, fastFailed, answered, garbage>>
    /\ UNCHANGED <<qcfg, ctxDone, qmain, qpump, qhost, tvars, lvars, evars, cvars, hvars>>

\* What fast-fail leaves in the pending table.
FastFailKeeps == pending
FastFailLeaves == {}

\* An error of the transport's error channel fails every pending entry with
\* that error, closes the outbound channel, and is passed on to the handler's
\* error channel.
HandlerError ==
    /\ ~crashed
    /\ ~qClosed
    /\ hErrFwd < Len(errCh)
    /\ hErrFwd' = hErrFwd + 1
    /\ hErrs' = Append(hErrs, errCh[hErrFwd + 1])
    /\ pending' = FastFailLeaves
    /\ awaiter' = [r \in Requests |->
                     IF r \in pending THEN errCh[hErrFwd + 1].kind ELSE awaiter[r]]
    /\ resolved' = [r \in Requests |->
                      IF r \in pending THEN resolved[r] + 1 ELSE resolved[r]]
    /\ fastFailed' = TRUE
    /\ UNCHANGED <<nextReq, sent>>
    /\ UNCHANGED <<hMsgs, hMsgsClosed, firstResult, qClosed>>
    /\ UNCHANGED <<qcfg, ctxDone, qmain, qpump, qhost, tuntouched, rvars>>

\* The transport's channels are closed when its reader returns; the handler
\* then closes its message channel.
HandlerEnd ==
    /\ ~crashed
    /\ ~hMsgsClosed
    /\ rpc = "done"
    /\ msgRecv = Len(msgCh)
    /\ hErrFwd = Len(errCh)
    /\ hMsgsClosed' = TRUE
    /\ UNCHANGED <<hMsgs, hErrs, hErrFwd, firstResult, qClosed>>
    /\ UNCHANGED <<qcfg, ctxDone, qmain, qpump, qhost, muntouched, rvars>>

\* What Close leaves in the pending table.
CloseKeeps == pending
CloseLeaves == {}

\* The handler's Close: the awaiters of the pending entries fail with
\* Canceled and the table is emptied before Close returns.
HandlerClose ==
    /\ qClosed' = TRUE
    /\ pending' = CloseLeaves
    /\ awaiter' = [r \in Requests |-> IF r \in pending THEN "Canceled" ELSE awaiter[r]]
    /\ resolved' = [r \in Requests |-> IF r \in pending THEN resolved[r] + 1 ELSE resolved[r]]
    /\ UNCHANGED <<nextReq, sent, fastFailed>>

\* errCh <- err blocks while the channel's buffer is full.
HostErrHasRoom == Len(hostErrs) - hostErrRecv < HostErrCap
HostMsgHasRoom == Len(hostMsgs) - hostRecv < HostMsgCap

\* What a receive from a channel yields.
RecvNewest(ch) == ch[Len(ch)]
RecvFrom(ch) == Head(ch)

\* Where the goroutine goes after `errCh <- err` for a parse error.
AfterParseErrorContinue == "select"
AfterParseError == "return"

\* The parse-and-yield goroutine, `case <-ctx.Done(): errCh <- ctx.Err(); return`
PumpCtxDone ==
    /\ ppc = "select"
    /\ ctxDone
    /\ HostErrHasRoom
    /\ hostErrs' = Append(hostErrs, Canceled)
    /\ ppc' = "return"
    /\ UNCHANGED <<held, hostMsgs, hostRecv, hostMsgsClosed, hostErrRecv, hostErrsClosed>>
    /\ UNCHANGED <<qcfg, ctxDone, qmain, qhand, muntouched, rvars>>

\* `case err := <-q.ReceiveErrors(): if err != nil { errCh <- err; return }`
PumpRecvError ==
    /\ ppc = "select"
    /\ hErrs # <<>>
    /\ HostErrHasRoom
    /\ hostErrs' = Append(hostErrs, Head(hErrs))
    /\ hErrs' = Tail(hErrs)
    /\ ppc' = "return"
    /\ UNCHANGED <<held, hostMsgs, hostRecv, hostMsgsClosed, hostErrRecv, hostErrsClosed>>
    /\ UNCHANGED <<hMsgs, hMsgsClosed, hErrFwd, firstResult, qClosed>>
    /\ UNCHANGED <<qcfg, ctxDone, qmain, muntouched, rvars>>

\* `case data, ok := <-q.ReceiveMessages()` with ok true: parseMessage(data),
\* on its error `errCh <- err; return`, else on to the send.
PumpRecvMsg ==
    /\ ppc = "select"
    /\ hMsgs # <<>>
    /\ LET data == RecvFrom(hMsgs)
       IN  IF ParseFails(data)
           THEN /\ HostErrHasRoom
                /\ hostErrs' = Append(hostErrs, MessageParseError)
                /\ ppc' = AfterParseError
                /\ UNCHANGED held
           ELSE /\ held' = parseMessage(data)
                /\ ppc' = "send"
                /\ UNCHANGED hostErrs
    /\ hMsgs' = Tail(hMsgs)
    /\ UNCHANGED <<hostMsgs, hostRecv, hostMsgsClosed, hostErrRecv, hostErrsClosed>>
    /\ UNCHANGED <<hMsgsClosed, hErrs, hErrFwd, firstResult, qClosed>>
    /\ UNCHANGED <<qcfg, ctxDone, qmain, muntouched, rvars>>

\* `if !ok { return }`
PumpMsgsClosed ==
    /\ ppc = "select"
    /\ hMsgs = <<>>
    /\ hMsgsClosed
    /\ ppc' = "return"
    /\ UNCHANGED held
    /\ UNCHANGED <<qcfg, ctxDone, qmain, qhand, qhost, muntouched, rvars>>

\* `case msgCh <- msg:`
PumpSend ==
    /\ ppc = "send"
    /\ HostMsgHasRoom
    /\ hostMsgs' = Append(hostMsgs, held)
    /\ held' = <<>>
    /\ ppc' = "select"
    /\ UNCHANGED <<hostRecv, hostMsgsClosed, hostErrs, hostErrRecv, hostErrsClosed>>
    /\ UNCHANGED <<qcfg, ctxDone, qmain, qhand, muntouched, rvars>>

InnerCtxIgnored == FALSE

\* The select around `msgCh <- msg` has a ctx.Done() case, lines 229-234.
InnerCtxDone == ctxDone

\* `case <-ctx.Done(): errCh <- ctx.Err(); return` of the inner select
PumpSendCtxDone ==
    /\ ppc = "send"
    /\ InnerCtxDone
    /\ HostErrHasRoom
    /\ hostErrs' = Append(hostErrs, Canceled)
    /\ held' = <<>>
    /\ ppc' = "return"
    /\ UNCHANGED <<hostMsgs, hostRecv, hostMsgsClosed, hostErrRecv, hostErrsClosed>>
    /\ UNCHANGED <<qcfg, ctxDone, qmain, qhand, muntouched, rvars>>

DeferredInSourceOrder == <<"close(msgCh)", "close(errCh)", "q.Close">>

\* The deferred calls of the goroutine, lines 208-210, in the order they run
\* at its return: last deferred first.
DeferredCalls == <<"q.Close", "close(errCh)", "close(msgCh)">>

\* One deferred call runs.
RunDeferred(call) ==
    /\ IF call = "q.Close" THEN HandlerClose ELSE UNCHANGED <<qClosed, mvars>>
    /\ hostErrsClosed' = (hostErrsClosed \/ call = "close(errCh)")
    /\ hostMsgsClosed' = (hostMsgsClosed \/ call = "close(msgCh)")
    /\ UNCHANGED held
    /\ UNCHANGED <<hMsgs, hMsgsClosed, hErrs, hErrFwd, firstResult>>
    /\ UNCHANGED <<hostMsgs, hostRecv, hostErrs, hostErrRecv>>
    /\ UNCHANGED <<qcfg, ctxDone, qmain, tuntouched, rvars>>

\* The goroutine returns and its first deferred call runs.
PumpReturn ==
    /\ ppc = "return"
    /\ RunDeferred(DeferredCalls[1])
    /\ ppc' = "deferred2"

\* The second and the third deferred call.
PumpDeferred2 ==
    /\ ppc = "deferred2"
    /\ RunDeferred(DeferredCalls[2])
    /\ ppc' = "deferred3"
PumpDeferred3 ==
    /\ ppc = "deferred3"
    /\ RunDeferred(DeferredCalls[3])
    /\ ppc' = "done"

\* The host receives from the channels Query returned.
HostRecv ==
    /\ qpc = "returned"
    /\ hostRecv < Len(hostMsgs)
    /\ hostRecv' = hostRecv + 1
    /\ UNCHANGED <<hostMsgs, hostMsgsClosed, hostErrs, hostErrRecv, hostErrsClosed>>
    /\ UNCHANGED <<qcfg, ctxDone, qmain, qpump, qhand, muntouched, rvars>>
HostRecvErr ==
    /\ qpc = "returned"
    /\ hostErrRecv < Len(hostErrs)
    /\ hostErrRecv' = hostErrRecv + 1
    /\ UNCHANGED <<hostMsgs, hostRecv, hostMsgsClosed, hostErrs, hostErrsClosed>>
    /\ UNCHANGED <<qcfg, ctxDone, qmain, qpump, qhand, muntouched, rvars>>

\* The host cancels ctx.
Cancel ==
    /\ qpc = "returned"
    /\ ~ctxDone
    /\ ctxDone' = TRUE
    /\ UNCHANGED <<qcfg, qmain, qpump, qhand, qhost, muntouched, rvars>>

NextQuery ==
    \/ QueryInitialize
    \/ QueryWriteUser
    \/ QueryStartStream
    \/ QueryEndInput
    \/ QueryEndInputCanceled
    \/ StreamWrite
    \/ StreamEnd
    \/ ReaderScanLine
    \/ ReaderCtxDone
    \/ ReaderScanEOF
    \/ ReaderWait
    \/ ReaderSendExitError
    \/ ChildExit
    \/ HandlerRoute
    \/ HandlerError
    \/ HandlerEnd
    \/ PumpCtxDone
    \/ PumpRecvError
    \/ PumpRecvMsg
    \/ PumpMsgsClosed
    \/ PumpSend
    \/ PumpSendCtxDone
    \/ PumpReturn
    \/ PumpDeferred2
    \/ PumpDeferred3
    \/ HostRecv
    \/ HostRecvErr
    \/ Cancel

SpecQuery == InitQuery /\ [][NextQuery]_vars

\* ------------------------------------------------- the control multiplexer
\* A session after Connect and Start: the child runs, has written nothing
\* yet, and the reader is scanning.
InitMux ==
    /\ isStreaming = TRUE
    /\ maxBufferSize \in {n \in BufferSizes : \A m \in BufferSizes : m <= n}
    /\ scannerInitialSize \in {n \in ScannerSizes : \A m \in ScannerSizes : m <= n}
    /\ cmd = "set" /\ procStarted = TRUE /\ processState = FALSE
    /\ stdin = "pipe" /\ ready = TRUE /\ exitError = NilErr /\ tempFiles = 0
    /\ mu = 0 /\ writeMu = 0
    /\ child = "running" /\ exitCode = 0 /\ spawned = 1
    /\ stdinOpen = TRUE /\ stdinBytes = <<>>
    /\ stream = <<>>
    /\ stdout = <<>>
    /\ stdoutEOF = FALSE /\ stdoutOpen = TRUE /\ tempOnDisk = 0
    /\ pc = [c \in Callers |-> "idle"]
    /\ last = NoCall
    /\ wrote = [c \in Callers |-> 0]
    /\ calls = 0
    /\ waiter = "none" /\ signals = <<>> /\ wctx = [c \in Callers |-> FALSE]
    /\ rpc = "scan" /\ readerChild = 1 /\ jsonBuffer = <<>> /\ msgCh = <<>> /\ msgRecv = 0
    /\ errCh = <<>>
    /\ phase = "ready" /\ closeCount = 0 /\ spawnedAtClose = 0 /\ msgsAtEndInput = 0 - 1
    /\ errsAtWrite = 0 - 1
    /\ crashed = FALSE
    /\ NoQuery
    /\ NoMux

\* Transport.Write returns nil: the checks pass and stdin takes the bytes.
WriteSucceeds == WriteAccepted /\ StdinWritable

Envelope(type, r) == [type |-> type, id |-> r]
CancelsSent(r) ==
    Cardinality({i \in 1 .. Len(sent) : sent[i] = Envelope("control_cancel_request", r)})

\* SendRequest: a fresh id, a promise in the pending table, the envelope
\* written; the caller then waits.
MuxSendRequest ==
    /\ ~qClosed
    /\ ~fastFailed
    /\ nextReq <= MaxRequests
    /\ WriteSucceeds
    /\ nextReq' = nextReq + 1
    /\ pending' = pending \cup {nextReq}
    /\ awaiter' = [awaiter EXCEPT ![nextReq] = "waiting"]
    /\ sent' = Append(sent, Envelope("control_request", nextReq))
    /\ UNCHANGED <<resolved, fastFailed>>
    /\ UNCHANGED <<qvars, tuntouched, rvars>>

\* SendRequest whose envelope the transport refuses, or made after the
\* outbound channel was closed: the promise is withdrawn and the caller gets
\* the error of the write, without waiting.
MuxSendRefused ==
    /\ ~qClosed
    /\ nextReq <= MaxRequests
    /\ fastFailed \/ ~WriteSucceeds
    /\ nextReq' = nextReq + 1
    /\ awaiter' = [awaiter EXCEPT ![nextReq] = "unsent"]
    /\ UNCHANGED <<pending, resolved, sent, fastFailed>>
    /\ UNCHANGED <<qvars, tuntouched, rvars>>

\* What the timeout leaves in the pending table.
TimeoutKeeps(r) == pending
TimeoutLeaves(r) == pending \ {r}

\* The wait of request r ends by timeout or by the caller's cancellation:
\* the cancel envelope is written if the transport takes it, the entry is
\* removed, the caller fails.
GiveUp(r, outcome) ==
    /\ sent' = IF WriteSucceeds
               THEN Append(sent, Envelope("control_cancel_request", r))
               ELSE sent
    /\ pending' = TimeoutLeaves(r)
    /\ awaiter' = [awaiter EXCEPT ![r] = outcome]
    /\ resolved' = [resolved EXCEPT ![r] = @ + 1]
    /\ UNCHANGED <<nextReq, fastFailed>>
    /\ UNCHANGED <<qvars, tuntouched, rvars>>

\* The timeout of request r elapses.
MuxTimeout(r) ==
    /\ ~qClosed
    /\ r \in pending
    /\ GiveUp(r, "TimeoutError")

\* The caller of request r cancels its context.
MuxCallerCancel(r) ==
    /\ ~qClosed
    /\ r \in pending
    /\ GiveUp(r, "Canceled")

\* The host calls the session's Close.
MuxClose ==
    /\ ~qClosed
    /\ HandlerClose
    /\ UNCHANGED <<hMsgs, hMsgsClosed, hErrs, hErrFwd, firstResult>>
    /\ UNCHANGED <<qcfg, ctxDone, qmain, qpump, qhost, tuntouched, rvars>>

\* The child answers request r: one control_response on a line of stdout.
ChildRespond(r) ==
    /\ ~crashed
    /\ child = "running"
    /\ \E i \in 1 .. Len(sent) : sent[i] = Envelope("control_request", r)
    /\ r \notin answered
    /\ stdout' = stdout \o ControlMsg \o <<NL>>
    /\ respIds' = Append(respIds, r)
    /\ answered' = answered \cup {r}
    /\ UNCHANGED <<garbage, reqIds, task>>
    /\ UNCHANGED <<child, exitCode, spawned, stdinOpen, stdinBytes, stdoutEOF, stdoutOpen,
                   tempOnDisk>>
    /\ UNCHANGED <<qvars, mvars, tvars, lvars, cvars, hvars, rvars>>

\* The child writes a line longer than max_buffer_size.
OversizeLine == <<"{", "a", "a", "a", "a", NL>>
ChildOversize ==
    /\ ~crashed
    /\ child = "running"
    /\ ~garbage
    /\ garbage' = TRUE
    /\ stdout' = stdout \o OversizeLine
    /\ UNCHANGED <<respIds, answered, reqIds, task>>
    /\ UNCHANGED <<child, exitCode, spawned, stdinOpen, stdinBytes, stdoutEOF, stdoutOpen,
                   tempOnDisk>>
    /\ UNCHANGED <<qvars, mvars, tvars, lvars, cvars, hvars, rvars>>

NextMux ==
    \/ MuxSendRequest
    \/ MuxSendRefused
    \/ \E r \in Requests : MuxTimeout(r)
    \/ \E r \in Requests : MuxCallerCancel(r)
    \/ MuxClose
    \/ \E r \in Requests : ChildRespond(r)
    \/ ChildOversize
    \/ ChildExit
    \/ ReaderScanLine
    \/ ReaderScanEOF
    \/ ReaderWait
    \/ ReaderSendExitError
    \/ HandlerRoute
    \/ HandlerError

\* The timer of a pending request runs out unless the request is resolved
\* first.
SpecMux ==
    /\ InitMux
    /\ [][NextMux]_vars
    /\ \A r \in Requests : WF_vars(MuxTimeout(r))

\* ------------------------------------------ what a stream is expected to hold
\* The stream is a concatenation of JSON objects, consecutive objects
\* separated by at least one "\n", with whitespace and further "\n" anywhere
\* between the bytes of an object.
RECURSIVE ConformantFrom(_, _, _, _)
ConformantFrom(s, i, d, sep) ==
    IF i > Len(s) THEN d = 0
    ELSE IF d = 0
         THEN CASE s[i] = "{" -> sep /\ ConformantFrom(s, i + 1, 1, FALSE)
                [] s[i] = NL -> ConformantFrom(s, i + 1, 0, TRUE)
                [] s[i] = SP -> ConformantFrom(s, i + 1, 0, sep)
                [] OTHER -> FALSE
         ELSE ConformantFrom(s, i + 1,
                  d + (IF s[i] = "{" THEN 1 ELSE IF s[i] = "}" THEN 0 - 1 ELSE 0), sep)
Conformant(s) == ConformantFrom(s, 1, 0, TRUE)

\* The objects of a conformant stream, in order, each as its significant bytes.
RECURSIVE ObjectsFrom(_, _, _, _)
ObjectsFrom(s, i, d, cur) ==
    IF i > Len(s) THEN <<>>
    ELSE CASE s[i] \in {SP, NL} -> ObjectsFrom(s, i + 1, d, cur)
           [] s[i] = "{" -> ObjectsFrom(s, i + 1, d + 1, Append(cur, s[i]))
           [] s[i] = "}" -> IF d = 1
                            THEN <<Append(cur, s[i])>> \o ObjectsFrom(s, i + 1, 0, <<>>)
                            ELSE ObjectsFrom(s, i + 1, d - 1, Append(cur, s[i]))
           [] OTHER -> ObjectsFrom(s, i + 1, d, Append(cur, s[i]))
ObjectsOf(s) == ObjectsFrom(s, 1, 0, <<>>)

\* The longest span of the stream, in bytes as written, from an object's
\* opening brace to its closing brace.
RECURSIVE MaxExtentFrom(_, _, _, _)
MaxExtentFrom(s, i, d, n) ==
    IF i > Len(s) THEN n
    ELSE LET d2 == d + (IF s[i] = "{" THEN 1 ELSE IF s[i] = "}" THEN 0 - 1 ELSE 0)
         IN  IF d = 0 /\ d2 = 0 THEN MaxExtentFrom(s, i + 1, 0, 0)
             ELSE IF d2 = 0 THEN Max(n + 1, MaxExtentFrom(s, i + 1, 0, 0))
             ELSE MaxExtentFrom(s, i + 1, d2, n + 1)
MaxExtent(s) == MaxExtentFrom(s, 1, 0, 0)

\* The longest line of the stream.
RECURSIVE MaxLine(_)
MaxLine(s) == IF s = <<>> THEN 0 ELSE Max(Len(ScanLine(s)), MaxLine(ScanRest(s)))

IsPrefix(a, b) == Len(a) <= Len(b) /\ a = SubSeq(b, 1, Len(a))
HasError(kind) == \E i \in 1 .. Len(errCh) : errCh[i].kind = kind

\* ---------------------------------------------------------- the transport
\* C1 as stated: a Write that has passed its readiness check never reaches
\* its stdin write after EndInput or Close has closed stdin and set the
\* handle to nil.
C1_WriteNeverAfterCloser ==
    \A c \in Callers : pc[c] = "w_write" => stdin # "nil"

\* C2: the bytes of each Write appear contiguously on stdin: every byte but
\* the first of a Write directly follows the previous byte of the same Write.
C2_WritesContiguous ==
    \A i \in 1 .. Len(stdinBytes) :
        stdinBytes[i][2] > 1
        => /\ i > 1
           /\ stdinBytes[i - 1] = <<stdinBytes[i][1], stdinBytes[i][2] - 1>>

\* One caller is in the middle of its stdin write while another, past its
\* readiness check, waits for writeMu.
C2_Witness ==
    \E c, d \in Callers :
        /\ c # d
        /\ pc[c] = "w_write"
        /\ wrote[c] >= 1
        /\ writeMu = c
        /\ pc[d] = "w_lock"

\* C3 as stated: once Close has returned, no later call makes ready true
\* again or spawns another child.
C3_ClosedIsTerminal ==
    closeCount > 0 => ~ready /\ spawned = spawnedAtClose

\* The lifecycle states in which the transport is not Ready: before a
\* successful Connect, after EndInput (draining), after Close.
NotReadyPhases == {"uninit", "failed", "draining", "closed"}

\* C4: a Write issued before Connect, in the draining state or in the
\* closed state returns a ConnectionError at its readiness check and writes
\* no byte to stdin; EndInput leaves the reader and the stdout pipe as they
\* are, and in the draining state the reader still takes the next line the
\* child produced.
C4_WriteOnlyWhenReady ==
    /\ [][\A c \in Callers :
            WriteCheck(c) /\ phase \in NotReadyPhases
            => /\ pc'[c] = "idle"
               /\ last' = [op |-> "Write", val |-> "ConnectionError"]
               /\ stdinBytes' = stdinBytes]_vars
    /\ [][\A c \in Callers :
            EndInputBody(c) => UNCHANGED <<rvars, stdout, stdoutEOF, stdoutOpen>>]_vars
    /\ []( /\ phase = "draining"
           /\ ~crashed
           /\ rpc = "scan"
           /\ IndexNL(stdout, 1) > 1
           /\ ~TooLong(ScanLine(stdout))
           /\ MsgChanHasRoom
           => ENABLED ReaderScanLine )

\* A Write was refused in the draining state, and the reader has delivered a
\* message since EndInput returned.
C4_Witness ==
    /\ phase = "draining"
    /\ last = [op |-> "Write", val |-> "ConnectionError"]
    /\ msgsAtEndInput >= 0
    /\ Len(msgCh) > msgsAtEndInput

\* C5 as stated: after EndInput or Close returns, ready is false, so
\* IsReady() reports false.
C5_ClosersClearReady ==
    last.op \in {"EndInput", "Close"} => ~ready

\* C6: every return of Close returns nil, whatever the state it was called
\* in; a Close that runs on a closed transport returns at once and leaves
\* ready, cmd, stdin, exitError and tempFiles unchanged.
C6_CloseIdempotent ==
    [][\A c \in Callers :
        /\ pc[c] \in {"c_body", "c_finish"} /\ pc'[c] = "idle"
           => last' = [op |-> "Close", val |-> "nil"]
        /\ pc[c] = "c_body" /\ pc'[c] # "c_body" /\ phase = "closed"
           => /\ pc'[c] = "idle"
              /\ UNCHANGED <<ready, cmd, stdin, exitError, tempFiles>>]_vars

\* Connect, Close, Close: the second Close has returned nil.
C6_Witness ==
    /\ calls = 3
    /\ spawned = 1
    /\ closeCount = 2
    /\ phase = "closed"
    /\ last = [op |-> "Close", val |-> "nil"]

\* C11: once the reader has sent the ProcessError of the transport's child,
\* every Write whose readiness check runs afterwards, before or after a
\* Close, returns a ConnectionError at the check and writes no byte.
C11_WriteAfterProcessError ==
    [][\A c \in Callers :
        WriteCheck(c) /\ HasError("ProcessError") /\ readerChild = spawned
        => /\ pc'[c] = "idle"
           /\ last' = [op |-> "Write", val |-> "ConnectionError"]
           /\ stdinBytes' = stdinBytes]_vars

\* A Write whose check ran after the ProcessError was sent was refused on a
\* transport that is still ready with a stdin handle: the refusal comes from
\* the child's recorded exit.
C11_Witness ==
    /\ HasError("ProcessError")
    /\ errsAtWrite = 1
    /\ readerChild = spawned
    /\ ready
    /\ stdin # "nil"
    /\ last = [op |-> "Write", val |-> "ConnectionError"]

\* ------------------------------------------------------------- the framer
\* C7 as stated: for any stream formed by concatenating N well-formed JSON
\* objects with newlines placed arbitrarily between tokens, the reader that
\* has finished has emitted exactly the N objects, in order.
C7_AnyStreamFramed ==
    rpc = "done" /\ Conformant(stream) => msgCh = ObjectsOf(stream)

\* C7 amended: the messages emitted are always a prefix of the stream's
\* objects, in order; and when every object spans at most maxBufferSize
\* bytes and every line is shorter than the scanner's limit, the reader that
\* has read the stream to its end has emitted exactly the N objects and has
\* reported no decode or connection error.
C7_FramedWithinLimits ==
    /\ Conformant(stream) => IsPrefix(msgCh, ObjectsOf(stream))
    /\ ( /\ rpc = "done"
         /\ Conformant(stream)
         /\ MaxExtent(stream) <= maxBufferSize
         /\ MaxLine(stream) < ScanLimit )
       => /\ msgCh = ObjectsOf(stream)
          /\ ~HasError("CLIJSONDecodeError")
          /\ ~HasError("ConnectionError")

\* Two objects, the first with a newline in its middle, both emitted.
C7_Witness ==
    /\ rpc = "done"
    /\ Conformant(stream)
    /\ MaxExtent(stream) <= maxBufferSize
    /\ MaxLine(stream) < ScanLimit
    /\ Len(ObjectsOf(stream)) = 2
    /\ stream[2] = NL
    /\ msgCh = ObjectsOf(stream)

\* C8: once the accumulation buffer holds more than maxBufferSize bytes, the
\* reader has stopped with exactly one DecodeError on the error channel, no
\* message is emitted from then on, and no message longer than the cap was
\* ever forwarded.
C8_SizeCap ==
    /\ [](Len(jsonBuffer) > maxBufferSize
            => /\ rpc = "done"
               /\ errCh = <<DecodeError>>
               /\ \A i \in 1 .. Len(msgCh) : Len(msgCh[i]) <= maxBufferSize)
    /\ [][Len(jsonBuffer) > maxBufferSize => msgCh' = msgCh /\ errCh' = errCh]_vars

\* The buffer went over the cap while accumulating several lines.
C8_Witness ==
    /\ Len(jsonBuffer) > maxBufferSize
    /\ Len(jsonBuffer) > MaxLine(stream)
    /\ errCh = <<DecodeError>>

\* C9 as stated: when the child emits a JSON value longer than maxBufferSize,
\* on one line or over several, the error on the error channel is a
\* DecodeError and no part of the value is forwarded.
C9_OversizeIsDecodeError ==
    ( /\ rpc = "done"
      /\ Conformant(stream)
      /\ \E i \in 1 .. Len(ObjectsOf(stream)) : Len(ObjectsOf(stream)[i]) > maxBufferSize )
    => /\ errCh = <<DecodeError>>
       /\ \A i \in 1 .. Len(msgCh) : Len(msgCh[i]) <= maxBufferSize

\* C10: when the reader observes the child's exit (end of stdout, then
\* Wait), every object of the stream was sent before any error; a non-zero
\* exit code is sent as exactly one ProcessError carrying it, a zero exit
\* sends nothing.
C10_ExitAfterDrain ==
    /\ HasError("ProcessError") /\ Conformant(stream) => msgCh = ObjectsOf(stream)
    /\ rpc \in {"wait", "senderr"} => errCh = <<>>
    /\ rpc = "done" /\ processState
       => errCh = IF exitCode # 0 THEN <<ProcessError(exitCode)>> ELSE <<>>
    /\ ( /\ rpc = "done"
         /\ Conformant(stream)
         /\ MaxExtent(stream) <= maxBufferSize
         /\ MaxLine(stream) < ScanLimit )
       => /\ processState
          /\ msgCh = ObjectsOf(stream)
          /\ errCh = IF exitCode # 0 THEN <<ProcessError(exitCode)>> ELSE <<>>

\* A message was delivered, then the exit code 2.
C10_Witness ==
    /\ rpc = "done"
    /\ processState
    /\ exitCode = 2
    /\ Len(msgCh) = 2
    /\ msgRecv = 1
    /\ errCh = <<ProcessError(2)>>


\* ------------------------------------------------------ claims on a query
HasHostError(kind) == \E i \in 1 .. Len(hostErrs) : hostErrs[i].kind = kind

\* C12: the error channel Query returns carries at most one value, whatever
\* the combination of cancellation, handler error, parse error and normal
\* completion.
C12_AtMostOneError == Len(hostErrs) <= 1

\* A parse error was sent and received, and ctx was cancelled afterwards as
\* well: the goroutine has returned without a second send.
C12_Witness ==
    /\ hostErrs = <<MessageParseError>>
    /\ hostErrRecv = 1
    /\ ctxDone
    /\ ppc = "done"


\* C13: a MessageParseError surfaced on the host's error channel does not
\* close the session: the parse-and-yield goroutine keeps running, the
\* handler stays open and the host's message channel stays open for the
\* messages that follow.
C13_ParseErrorNotFatal ==
    HasHostError("MessageParseError")
        => /\ ppc \in {"select", "send"}
           /\ ~qClosed
           /\ ~hostMsgsClosed


Called(call) == \E i \in 1 .. Len(tlog) : tlog[i] = call

\* C14: for a string prompt, with a hook or an SDK tool server registered
\* EndInput is never called before the first result was observed; with none
\* registered it is the call that follows the write of the single user message,
\* and nothing but scheduling delays it.
C14_EndInputAfterFirstResult ==
    /\ [][tlog' # tlog /\ tlog'[Len(tlog')] = "endinput"
            => /\ promptIsString
               /\ hasHooks => firstResult
               /\ tlog = <<"initialize", "user">>]_vars
    /\ [](promptIsString /\ ~hasHooks /\ epc = "start" => ENABLED QueryEndInput)

\* With a hook registered, stdin was closed after the first result.
C14_Witness ==
    /\ promptIsString
    /\ hasHooks
    /\ firstResult
    /\ tlog = <<"initialize", "user", "endinput">>


\* C15: no conversation message, the user message of a string prompt or a
\* message of the prompt channel, is written to the transport before
\* Initialize has returned successfully; when Initialize fails, none is
\* ever written.
C15_InitializeFirst ==
    /\ [][tlog' # tlog /\ tlog'[Len(tlog')] = "user"
            => /\ qpc \in {"initialized", "returned"}
               /\ tlog[1] = "initialize"]_vars
    /\ [](qpc = "init_failed" => ~Called("user"))

\* A message of the prompt channel was written after the handshake.
C15_Witness ==
    /\ ~promptIsString
    /\ qpc = "returned"
    /\ tlog = <<"initialize", "user">>


\* The conversation messages of a sequence the framer emitted, parsed, in
\* the framer's order.
RECURSIVE ImageOf(_)
ImageOf(emitted) ==
    IF emitted = <<>> THEN <<>>
    ELSE IF IsControl(Head(emitted)) \/ ParseFails(Head(emitted))
    THEN ImageOf(Tail(emitted))
    ELSE <<parseMessage(Head(emitted))>> \o ImageOf(Tail(emitted))

\* C16: the messages on the channel Query returns are, in order and without
\* repetition, a prefix of the conversation messages ReadMessages emitted.
C16_FramerOrder == IsPrefix(hostMsgs, ImageOf(msgCh))

\* Two conversation messages reached the host, with a control envelope
\* among what the framer emitted.
C16_Witness ==
    /\ Len(msgCh) = 3
    /\ Len(hostMsgs) = 2
    /\ hostMsgs[1] # hostMsgs[2]
    /\ hostRecv = 2


\* ------------------------------------------- claims on the multiplexer
Responded == {"response"}
ListedFailures == {"TimeoutError", ProcessError(0).kind, "Canceled"}
FramerFailures == {ProcessError(0).kind, DecodeError.kind, ConnectionError.kind}

C18_FastFail ==
    /\ [][hErrFwd' = hErrFwd + 1 /\ errCh[hErrFwd + 1].kind = ProcessError(0).kind
            => /\ \A r \in pending :
                    /\ awaiter'[r] = errCh[hErrFwd + 1].kind
                    /\ resolved'[r] = 1
               /\ pending' = {}]_vars
    /\ [](fastFailed => pending = {})

\* Two requests were pending when the child's exit was reported, and both
\* failed with the ProcessError.
C18_Witness ==
    /\ \A r \in Requests : awaiter[r] = ProcessError(0).kind /\ resolved[r] = 1
    /\ hErrs = <<ProcessError(2)>>
    /\ pending = {}


\* C19: once the session's Close has returned the pending table is empty:
\* every entry was removed by its response, a cancellation, its timeout, the
\* child's exit, or by Close itself.
C19_EmptyAtClose == qClosed => pending = {}

\* Close found both requests pending, with the child alive and silent, and
\* failed them.
C19_Witness ==
    /\ qClosed
    /\ \A r \in Requests : awaiter[r] = "Canceled" /\ CancelsSent(r) = 0
    /\ child = "running"
    /\ msgCh = <<>>


\* C20 as stated: a request whose timeout elapsed has exactly one
\* control_cancel_request with its id written, no entry in the pending table,
\* and its caller failed with TimeoutError.
C20_TimeoutWritesCancel ==
    \A r \in Requests :
        awaiter[r] = "TimeoutError" => CancelsSent(r) = 1 /\ r \notin pending

\* C20, amended: when the timeout of a request elapses the entry is removed
\* and the caller fails with TimeoutError; the control_cancel_request with
\* the same id is written once if the transport accepts the write and not at
\* all if it refuses it, and never a second time.
C20_TimeoutCancels ==
    /\ [][\A r \in Requests :
            MuxTimeout(r)
            => /\ r \notin pending'
               /\ awaiter'[r] = "TimeoutError"
               /\ CancelsSent(r)' = (IF WriteSucceeds THEN 1 ELSE 0)]_vars
    /\ [](\A r \in Requests :
            /\ CancelsSent(r) <= 1
            /\ awaiter[r] = "TimeoutError" => r \notin pending)

\* The child is alive and silent, request 1 timed out and its cancel
\* envelope was written.
C20_Witness ==
    /\ awaiter[1] = "TimeoutError"
    /\ CancelsSent(1) = 1
    /\ pending = {}
    /\ child = "running"
    /\ answered = {}


\* A select with several ready cases takes one of them at random, so a case
\* that stays ready is taken in the end; a goroutine that returns runs its
\* deferred calls.
SpecQueryLive ==
    /\ InitQuery
    /\ [][NextQuery]_vars
    /\ WF_vars(PumpCtxDone \/ PumpSendCtxDone)
    /\ WF_vars(PumpReturn \/ PumpDeferred2 \/ PumpDeferred3)

\* ------------------------------------------------- the dispatch of requests
\* processQuery with a string prompt, after Connect and Start: the child runs
\* and has written nothing yet.
InitDispatch ==
    /\ isStreaming = TRUE
    /\ maxBufferSize \in {n \in BufferSizes : \A m \in BufferSizes : m <= n}
    /\ scannerInitialSize \in {n \in ScannerSizes : \A m \in ScannerSizes : m <= n}
    /\ cmd = "set" /\ procStarted = TRUE /\ processState = FALSE
    /\ stdin = "pipe" /\ ready = TRUE /\ exitError = NilErr /\ tempFiles = 0
    /\ mu = 0 /\ writeMu = 0
    /\ child = "running" /\ exitCode = 0 /\ spawned = 1
    /\ stdinOpen = TRUE /\ stdinBytes = <<>>
    /\ stream = <<>>
    /\ stdout = <<>>
    /\ stdoutEOF = FALSE /\ stdoutOpen = TRUE /\ tempOnDisk = 0
    /\ pc = [c \in Callers |-> "idle"]
    /\ last = NoCall
    /\ wrote = [c \in Callers |-> 0]
    /\ calls = 0
    /\ waiter = "none" /\ signals = <<>> /\ wctx = [c \in Callers |-> FALSE]
    /\ rpc = "scan" /\ readerChild = 1 /\ jsonBuffer = <<>> /\ msgCh = <<>> /\ msgRecv = 0
    /\ errCh = <<>>
    /\ phase = "ready" /\ closeCount = 0 /\ spawnedAtClose = 0 /\ msgsAtEndInput = 0 - 1
    /\ errsAtWrite = 0 - 1
    /\ crashed = FALSE
    /\ NoValidation
    /\ promptIsString = TRUE
    /\ hasHooks \in BOOLEAN
    /\ prompts = 0
    /\ ctxDone = FALSE
    /\ qpc = "started" /\ epc = "none" /\ spc = "none" /\ ppc = "none" /\ held = <<>>
    /\ tlog = <<>>
    /\ hMsgs = <<>> /\ hMsgsClosed = FALSE /\ hErrs = <<>> /\ hErrFwd = 0
    /\ firstResult = FALSE /\ qClosed = FALSE
    /\ hostMsgs = <<>> /\ hostRecv = 0 /\ hostMsgsClosed = FALSE
    /\ hostErrs = <<>> /\ hostErrRecv = 0 /\ hostErrsClosed = FALSE
    /\ NoMux

\* The child makes its next control request: one control_request on a line
\* of stdout.
ChildRequest(i) ==
    /\ ~crashed
    /\ child = "running"
    /\ task[i] = "none"
    /\ \A j \in InboundIds : j < i => task[j] # "none"
    /\ stdout' = stdout \o ControlMsg \o <<NL>>
    /\ reqIds' = Append(reqIds, i)
    /\ task' = [task EXCEPT ![i] = "sent"]
    /\ UNCHANGED <<respIds, answered, garbage>>
    /\ UNCHANGED <<child, exitCode, spawned, stdinOpen, stdinBytes, stdoutEOF, stdoutOpen,
                   tempOnDisk>>
    /\ UNCHANGED <<qvars, mvars, tvars, lvars, cvars, hvars, rvars>>

\* The child writes the result of the turn.
ChildResult ==
    /\ ~crashed
    /\ child = "running"
    /\ stream = <<>>
    /\ stream' = ResultMsg \o <<NL>>
    /\ stdout' = stdout \o stream'
    /\ UNCHANGED <<rpc, readerChild, jsonBuffer, msgCh, msgRecv, errCh>>
    /\ UNCHANGED <<child, exitCode, spawned, stdinOpen, stdinBytes, stdoutEOF, stdoutOpen,
                   tempOnDisk>>
    /\ UNCHANGED <<qvars, mvars, kvars, tvars, lvars, cvars, hvars>>

\* chosenTransport.EndInput() was called: stdin is closed and t.stdin is nil
\* (lines 905-919), and Write returns "transport is not ready for writing".
InputEnded == \E k \in 1 .. Len(tlog) : tlog[k] = "endinput"

\* Transport.Write of a response returns nil.
ResponseWritten == WriteSucceeds /\ ~InputEnded

\* The task of request i has its response value; the multiplexer writes the
\* control_response with the same id through the transport.
DispatchRespond(i) ==
    /\ ~crashed
    /\ ~qClosed
    /\ task[i] = "handling"
    /\ IF ResponseWritten
       THEN /\ sent' = Append(sent, Envelope("control_response", i))
            /\ task' = [task EXCEPT ![i] = "answered"]
       ELSE /\ task' = [task EXCEPT ![i] = "refused"]
            /\ UNCHANGED sent
    /\ UNCHANGED <<nextReq, pending, awaiter, resolved, fastFailed>>
    /\ UNCHANGED <<respIds, answered, garbage, reqIds>>
    /\ UNCHANGED <<qvars, tvars, lvars, evars, cvars, hvars, rvars>>

NextDispatch ==
    \/ QueryInitialize
    \/ QueryWriteUser
    \/ QueryEndInput
    \/ QueryEndInputCanceled
    \/ \E i \in InboundIds : ChildRequest(i)
    \/ ChildResult
    \/ ChildExit
    \/ ReaderScanLine
    \/ ReaderCtxDone
    \/ ReaderScanEOF
    \/ ReaderWait
    \/ ReaderSendExitError
    \/ HandlerRoute
    \/ HandlerError
    \/ HandlerEnd
    \/ \E i \in InboundIds : DispatchRespond(i)
    \/ PumpCtxDone
    \/ PumpRecvError
    \/ PumpRecvMsg
    \/ PumpMsgsClosed
    \/ PumpSend
    \/ PumpSendCtxDone
    \/ PumpReturn
    \/ PumpDeferred2
    \/ PumpDeferred3
    \/ HostRecv
    \/ HostRecvErr
    \/ Cancel

SpecDispatch == InitDispatch /\ [][NextDispatch]_vars

\* ------------------------------------------------ the permission settings
\* A caller hands options and a mode to validateAndConfigurePermissions.
ValidateCall ==
    /\ ~vcall.made
    /\ \E options \in OptionValues \cup {NilOptions}, mode \in BOOLEAN :
           vcall' = [made |-> TRUE, options |-> options, isStreaming |-> mode]
    /\ UNCHANGED <<promptIsString, hasHooks, vret>>
    /\ UNCHANGED <<ctxDone, qmain, qpump, qhand, qhost, muntouched, rvars>>

\* The caller's options after a call that assigns the tool name through the
\* pointer it was given.
CallerOptionsInPlace(options, isStreamingArg) ==
    LET r == validateAndConfigurePermissions(options, isStreamingArg)
    IN  IF ~options.isNil /\ r.err = "nil" THEN r.options ELSE options

\* The caller's options after the call, helpers.go lines 104-107: the tool
\* name is assigned to newOpts, a copy made by `newOpts := *options`; no
\* statement of the function writes through its argument.
CallerOptions(options, isStreamingArg) == options

\* The function returns.  vcall.options is the value the caller's pointer
\* refers to.
ValidateReturn ==
    /\ vcall.made
    /\ ~vret.done
    /\ LET r == validateAndConfigurePermissions(vcall.options, vcall.isStreaming)
       IN  vret' = [vret EXCEPT !.done = TRUE, !.options = r.options, !.err = r.err]
    /\ vcall' = [vcall EXCEPT
                    !.options = CallerOptions(vcall.options, vcall.isStreaming)]
    /\ UNCHANGED <<promptIsString, hasHooks>>
    /\ UNCHANGED <<ctxDone, qmain, qpump, qhand, qhost, muntouched, rvars>>

\* The caller passes the same options once more, in the same mode.
ValidateAgain ==
    /\ vret.done
    /\ ~vret.second.done
    /\ LET r == validateAndConfigurePermissions(vcall.options, vcall.isStreaming)
       IN  vret' = [vret EXCEPT
                       !.second = [done |-> TRUE, options |-> r.options, err |-> r.err]]
    /\ vcall' = [vcall EXCEPT
                    !.options = CallerOptions(vcall.options, vcall.isStreaming)]
    /\ UNCHANGED <<promptIsString, hasHooks>>
    /\ UNCHANGED <<ctxDone, qmain, qpump, qhand, qhost, muntouched, rvars>>

NextPermissions ==
    \/ ValidateCall
    \/ ValidateReturn
    \/ ValidateAgain

SpecPermissions == Init /\ [][NextPermissions]_vars

\* ------------------------------------- the reader under a cancelled context
\* The child writes one message more than the message channel buffers.
Burst == MsgChanCap + 1

RECURSIVE Lines(_)
Lines(n) == IF n = 0 THEN <<>> ELSE <<"{", "}", NL>> \o Lines(n - 1)

\* A connected transport whose child has written Burst messages, ReadMessages
\* started with a ctx that is not done yet.
InitCancel ==
    /\ isStreaming = TRUE
    /\ maxBufferSize \in {n \in BufferSizes : \A m \in BufferSizes : m <= n}
    /\ scannerInitialSize \in {n \in ScannerSizes : \A m \in ScannerSizes : m <= n}
    /\ cmd = "set" /\ procStarted = TRUE /\ processState = FALSE
    /\ stdin = "pipe" /\ ready = TRUE /\ exitError = NilErr /\ tempFiles = 0
    /\ mu = 0 /\ writeMu = 0
    /\ child = "running" /\ exitCode = 0 /\ spawned = 1
    /\ stdinOpen = TRUE /\ stdinBytes = <<>>
    /\ stream = Lines(Burst)
    /\ stdout = stream
    /\ stdoutEOF = FALSE /\ stdoutOpen = TRUE /\ tempOnDisk = 0
    /\ pc = [c \in Callers |-> "idle"]
    /\ last = NoCall
    /\ wrote = [c \in Callers |-> 0]
    /\ calls = 0
    /\ waiter = "none" /\ signals = <<>> /\ wctx = [c \in Callers |-> FALSE]
    /\ rpc = "scan" /\ readerChild = 1 /\ jsonBuffer = <<>> /\ msgCh = <<>> /\ msgRecv = 0 /\ errCh = <<>>
    /\ phase = "ready" /\ closeCount = 0 /\ spawnedAtClose = 0 /\ msgsAtEndInput = 0 - 1
    /\ errsAtWrite = 0 - 1
    /\ crashed = FALSE
    /\ NoQuery
    /\ NoMux

\* The iteration of the loop that parsed a message while the channel's
\* buffer is full: the ctx check at the head of the body (lines 839-843) is
\* behind it, and `msgCh <- data` (line 877) is a plain send, in no select.
\* The line in hand stays at the head of stdout until the send is done.
ReaderBlock ==
    /\ ~crashed
    /\ rpc = "scan"
    /\ ~ctxDone
    /\ stdout # <<>>
    /\ ~TooLong(ScanLine(stdout))
    /\ IndexNL(stdout, 1) # 0 \/ stdoutEOF
    /\ LET line == TrimSpace(ScanLine(stdout))
           buf == Accumulate(jsonBuffer, line)
       IN  line # <<>> /\ ~Overflows(buf) /\ UnmarshalOK(buf)
    /\ ~MsgChanHasRoom
    /\ rpc' = "send"
    /\ UNCHANGED <<readerChild, jsonBuffer, msgCh, msgRecv, errCh, stream>>
    /\ UNCHANGED <<tvars, lvars, evars, cvars, hvars>>
    /\ UNCHANGED svars

\* The blocked send completes once the consumer has taken a message; ctx is
\* not looked at.
ReaderSendBlocked ==
    /\ ~crashed
    /\ rpc = "send"
    /\ MsgChanHasRoom
    /\ msgCh' = Append(msgCh, Unmarshal(Accumulate(jsonBuffer, TrimSpace(ScanLine(stdout)))))
    /\ jsonBuffer' = <<>>
    /\ stdout' = ScanRest(stdout)
    /\ rpc' = "scan"
    /\ UNCHANGED <<readerChild, msgRecv, errCh, stream>>
    /\ UNCHANGED <<child, exitCode, spawned, stdinOpen, stdinBytes, stdoutEOF, stdoutOpen,
                   tempOnDisk>>
    /\ UNCHANGED <<tvars, lvars, cvars, hvars>>
    /\ UNCHANGED svars

\* The owner of the ctx given to ReadMessages cancels it.
ReaderCancel ==
    /\ ~crashed
    /\ ~ctxDone
    /\ ctxDone' = TRUE
    /\ UNCHANGED <<qcfg, qmain, qpump, qhand, qhost, muntouched, rvars>>

ReaderStep ==
    \/ ReaderScanLine
    \/ ReaderBlock
    \/ ReaderSendBlocked
    \/ ReaderCtxDone
    \/ ReaderScanEOF
    \/ ReaderWait
    \/ ReaderSendExitError

NextCancel ==
    \/ ReaderScanLine
    \/ ReaderBlock
    \/ ReaderSendBlocked
    \/ ReaderCtxDone
    \/ ReaderScanEOF
    \/ ReaderWait
    \/ ReaderSendExitError
    \/ ReaderCancel
    \/ Receive
    \/ ChildExit

\* The goroutine is scheduled whenever it can run and the child ends; the
\* consumer of the message channel promises nothing.
SpecCancel ==
    /\ InitCancel
    /\ [][NextCancel]_vars
    /\ WF_vars(ReaderStep)
    /\ WF_vars(ChildExit)

\* ------------------------------------------------ claims on the lifecycle
\* C22: after Close has returned no channel carries new items: the reader
\* goroutine sends no further message or error on the channels ReadMessages
\* returned.
C22_NothingAfterClose ==
    [][phase = "closed" => msgCh' = msgCh /\ errCh' = errCh]_vars

\* C26: a Connect that finds no working directory returns a ConnectionError,
\* spawns no child process and leaves the transport not ready.
C26_MissingCwd ==
    [][\A c \in Callers, files \in 0 .. 1 :
          (Idle(c) /\ mu = 0 /\ cmd = "nil" /\ ConnectRun(c, "cwd", files))
              => /\ last' = [op |-> "Connect", val |-> ConnectionError.kind]
                 /\ spawned' = spawned
                 /\ child' = child
                 /\ ~procStarted'
                 /\ ~ready']_vars

C26_Witness ==
    /\ last = [op |-> "Connect", val |-> ConnectionError.kind]
    /\ cmd = "set"
    /\ stdin = "nil"
    /\ spawned = 0
    /\ child = "none"
    /\ ~ready

C23_WriteCanceled ==
    [][\A c \in Callers :
          wctx[c] =>
              /\ Len(stdinBytes') > Len(stdinBytes)
                     => stdinBytes'[Len(stdinBytes')][1] # c
              /\ (pc[c] # "idle" /\ pc'[c] = "idle")
                     => last' = [op |-> "Write", val |-> Canceled.kind]]_vars

\* C27: the first signal Close sends to a running child is a terminate
\* request, and only signals sent after the grace period are kills.
C27_TerminateFirst ==
    /\ signals # <<>> => signals[1] = "terminate"
    /\ \A i \in 2 .. Len(signals) : signals[i] = "kill"

\* A caller in the middle of a call, or the goroutine of Close, can step.
SomeoneCanStep ==
    ENABLED (\/ \E c \in Callers :
                  \/ WriteLock(c) \/ WriteBytes(c) \/ WriteFail(c)
                  \/ EndInputBody(c)
                  \/ CloseBody(c) \/ CloseWaitDone(c) \/ CloseWaitTimeout(c)
                  \/ CloseFinish(c)
             \/ CloseWaiter)

\* C30: the write mutex is always taken before the state mutex: a caller
\* that waits for or takes writeMu does not hold mu, and no interleaving of
\* the operations leaves the callers blocked on the two locks.
C30_LockOrder ==
    /\ [](\A c \in Callers : pc[c] = "w_lock" => mu # c)
    /\ [][\A c \in Callers : (writeMu' = c /\ writeMu # c) => mu # c /\ mu' # c]_vars
    /\ []((~crashed /\ \E c \in Callers : pc[c] # "idle") => SomeoneCanStep)

\* Close holds both locks, taken in that order, while a Write waits for
\* the write mutex.
C30_Witness ==
    \E c, d \in Callers :
        /\ c # d /\ writeMu = c /\ mu = c /\ pc[c] \in {"c_wait", "c_finish"}
        /\ pc[d] = "w_lock"

\* C24: once the ctx given to ReadMessages is cancelled the reader goroutine
\* eventually terminates and closes both channels, even when the message
\* channel is full and nobody receives.
C24_ReaderCancellable == ctxDone ~> (rpc = "done")

\* The forwarding goroutine of processQuery is in its loop.
Forwarding == ppc \in {"select", "send"}

\* C25 as stated: a forwarding goroutine that leaves its loop after ctx was
\* cancelled does so by sending the context error on the error channel.
C25_SendsContextError ==
    [][(ctxDone /\ Forwarding /\ ppc' = "return")
          => hostErrs' = Append(hostErrs, Canceled)]_vars

\* C25, amended: once ctx is cancelled the forwarding goroutine eventually
\* has invoked the handler's Close and closed both channels; it has sent at
\* most one error, which is the context error unless another ready case of
\* its select (a handler error, a message that does not parse, the closed
\* message channel) ended the loop.
C25_CancelEnds ==
    /\ [](Len(hostErrs) <= 1)
    /\ [][(ctxDone /\ Forwarding /\ ppc' = "return")
            => \/ hostErrs' = Append(hostErrs, Canceled)
               \/ hostErrs' = Append(hostErrs, MessageParseError)
               \/ hErrs # <<>> /\ hostErrs' = Append(hostErrs, Head(hErrs))
               \/ hMsgsClosed /\ hostErrs' = hostErrs]_vars
    /\ [](ppc = "done" => qClosed /\ hostErrsClosed /\ hostMsgsClosed)
    /\ (ctxDone /\ Forwarding) ~> (ppc = "done")

C25_Witness ==
    /\ ctxDone /\ ppc = "done" /\ qClosed /\ hostErrsClosed /\ hostMsgsClosed
    /\ hostErrs = <<Canceled>>

\* C29 as stated: with CanUseTool set the function fails unless the mode is
\* streaming and no PermissionPromptToolName is set, and then returns the
\* options with PermissionPromptToolName "stdio"; with CanUseTool unset it
\* returns the options as given.
C29_AsGiven ==
    vret.done =>
        LET o == vcall.options
        IN  IF ~o.isNil /\ o.canUseTool
            THEN IF ~vcall.isStreaming \/ o.permissionPromptToolName # "nil"
                 THEN vret.err # "nil"
                 ELSE /\ vret.err = "nil"
                      /\ vret.options = [o EXCEPT !.permissionPromptToolName = "stdio"]
            ELSE vret.err = "nil" /\ vret.options = o

\* C29, amended: as stated for options that are given; for nil options the
\* function returns new, empty options and no error.
C29_Permissions ==
    vret.done =>
        LET o == vcall.options
        IN  IF o.isNil
            THEN vret.err = "nil" /\ vret.options = EmptyOptions
            ELSE IF o.canUseTool
            THEN IF ~vcall.isStreaming \/ o.permissionPromptToolName # "nil"
                 THEN vret.err # "nil"
                 ELSE /\ vret.err = "nil"
                      /\ vret.options = [o EXCEPT !.permissionPromptToolName = "stdio"]
            ELSE vret.err = "nil" /\ vret.options = o

C29_Witness ==
    /\ vret.done /\ vret.err = "nil"
    /\ vcall.options.canUseTool /\ vcall.isStreaming
    /\ vret.options.permissionPromptToolName = "stdio"
    /\ vret.options.rest = MaxRest

\* control_response envelopes written for the inbound request i.
ResponsesTo(i) ==
    Cardinality({k \in 1 .. Len(sent) : sent[k] = Envelope("control_response", i)})

\* C21: for every inbound control_request the dispatcher receives, at most
\* one control_response with its id is written, exactly one once its task
\* is through, and no response is lost while the session is open and the
\* child is there to read it.
C21_OneResponse ==
    \A i \in InboundIds :
        /\ ResponsesTo(i) <= 1
        /\ task[i] = "answered" <=> ResponsesTo(i) = 1
        /\ task[i] = "refused" => qClosed \/ child # "running"

\* ------------------------------------------------- claims on the two locks
\* The next statement of caller c is t.mu.Lock(): EndInput line 909, Close
\* line 937, the error path of Write line 809.
AboutToLockMu(c) == pc[c] \in {"e_body", "c_body", "w_err"}

\* C31: a caller that takes the state mutex while it holds the write mutex
\* is on a close path, in EndInput or in Close, never in Write.
C31_OnlyClosePaths ==
    \A c \in Callers :
        (writeMu = c /\ AboutToLockMu(c)) => pc[c] \in {"e_body", "c_body"}

\* C32: the shared fields are accessed under the state mutex only: while a
\* caller holds it, no other goroutine updates exitError or reads the command
\* handle for its Wait.
C32_StateUnderMutex ==
    [][\A c \in Callers :
          (mu = c /\ pc'[c] = pc[c])
              => /\ exitError' = exitError
                 /\ ~(rpc = "wait" /\ rpc' # "wait")]_vars

\* C33: the exit status of a child is collected once: t.cmd.Wait() is never
\* called after a Wait has collected the status, and never on a command
\* handle that Close has reset to nil.
C33_WaitOnce ==
    [][(ReaderWait \/ CloseWaiter) => (cmd # "nil" /\ ~processState)]_vars

\* C34: whenever Connect returns nil the transport is ready and owns a started
\* child process, also when the Connect follows a failed Connect.
C34_NilMeansReady ==
    [][\A c \in Callers :
          (Connect(c) /\ last'.val = "nil") => (ready' /\ procStarted')]_vars

\* C35: in every reachable state where ready is true and the stdin handle is
\* non-nil the stdin pipe is open, for a transport made from a string prompt
\* as well as for one made from a prompt channel.
C35_ReadyStdinOpen == (ready /\ stdin # "nil") => stdinOpen

\* C36: by the time the host can observe the message channel closed, the
\* handler's Close has returned and the error channel is closed and holds at
\* most one error, so one receive from it after the drain does not block.
C36_ErrorsClosedFirst ==
    hostMsgsClosed => /\ qClosed
                      /\ hostErrsClosed
                      /\ Len(hostErrs) <= 1
C36_Witness ==
    /\ hostMsgsClosed
    /\ hostRecv = Len(hostMsgs) /\ hostRecv > 0
    /\ hostErrs # <<>> /\ hostErrRecv = Len(hostErrs)

\* C37: when Query returns an error after the transport's Connect succeeded
\* (Initialize failed, the user-message Write failed), the transport has been
\* closed before the return: it is not ready and owns no command any more.
C37_ErrorClosesTransport ==
    qpc \in {"init_failed", "write_failed"} => (~ready /\ cmd = "nil")

\* ------------------------------------------------- a child that stops reading
\* The bytes the stdin pipe buffers while the child reads nothing.
PipeCap == 3

\* A connected streaming transport whose child runs, writes nothing and
\* does not read its stdin.
InitStall ==
    /\ isStreaming = TRUE
    /\ maxBufferSize \in {n \in BufferSizes : \A m \in BufferSizes : m <= n}
    /\ scannerInitialSize \in {n \in ScannerSizes : \A m \in ScannerSizes : m <= n}
    /\ cmd = "set" /\ procStarted = TRUE /\ processState = FALSE
    /\ stdin = "pipe" /\ ready = TRUE /\ exitError = NilErr /\ tempFiles = 0
    /\ mu = 0 /\ writeMu = 0
    /\ child = "running" /\ exitCode = 0 /\ spawned = 1
    /\ stdinOpen = TRUE /\ stdinBytes = <<>>
    /\ stream = <<>>
    /\ stdout = <<>>
    /\ stdoutEOF = FALSE /\ stdoutOpen = TRUE /\ tempOnDisk = 0
    /\ pc = [c \in Callers |-> "idle"]
    /\ last = NoCall
    /\ wrote = [c \in Callers |-> 0]
    /\ calls = 0
    /\ waiter = "none" /\ signals = <<>> /\ wctx = [c \in Callers |-> FALSE]
    /\ rpc = "idle" /\ readerChild = 0 /\ jsonBuffer = <<>> /\ msgCh = <<>> /\ msgRecv = 0
    /\ errCh = <<>>
    /\ phase = "ready" /\ closeCount = 0 /\ spawnedAtClose = 0 /\ msgsAtEndInput = 0 - 1
    /\ errsAtWrite = 0 - 1
    /\ crashed = FALSE
    /\ NoQuery
    /\ NoMux

\* t.stdin.Write blocks while the pipe's buffer is full and the read end is
\* open; it fails at once when the child is gone.
PipeHasRoom == Len(stdinBytes) < PipeCap
PipeWrite(c) ==
    /\ PipeHasRoom \/ ~StdinWritable \/ stdin = "nil"
    /\ WriteBytes(c)

\* Close is called, line 932: the caller is at t.writeMu.Lock(), line 934.
CloseCall(c) ==
    /\ Idle(c)
    /\ calls' = calls + 1
    /\ pc' = [pc EXCEPT ![c] = "c_lock"]
    /\ UNCHANGED <<mu, writeMu, wrote, last, waiter, signals, wctx>>
    /\ UNCHANGED <<tvars, evars, rvars, hvars>>
    /\ UNCHANGED svars

\* Close, line 934: t.writeMu.Lock() returns when the write mutex is free.
CloseAcquire(c) ==
    /\ ~crashed
    /\ pc[c] = "c_lock"
    /\ writeMu = 0
    /\ writeMu' = c
    /\ pc' = [pc EXCEPT ![c] = "c_body"]
    /\ UNCHANGED <<mu, wrote, calls, last, waiter, signals, wctx>>
    /\ UNCHANGED <<tvars, evars, rvars, hvars>>
    /\ UNCHANGED svars

\* The steps of a call in progress, whoever makes it.
WriterStep(c) == WriteLock(c) \/ PipeWrite(c) \/ WriteFail(c)
CloserStep(c) ==
    CloseBody(c) \/ CloseWaitDone(c) \/ CloseWaitTimeout(c) \/ CloseFinish(c)

NextStall ==
    \/ \E c \in Callers :
        \/ WriteCheck(c)
        \/ WriteLock(c)
        \/ PipeWrite(c)
        \/ WriteFail(c)
        \/ CloseCall(c)
        \/ CloseAcquire(c)
        \/ CloseBody(c)
        \/ CloseWaitDone(c)
        \/ CloseWaitTimeout(c)
        \/ CloseFinish(c)
    \/ CloseWaiter
    \/ ChildExit

\* Every call in progress is scheduled, a mutex that is free again and again
\* is granted to the caller waiting for it; the child promises nothing.
SpecStall ==
    /\ InitStall
    /\ [][NextStall]_vars
    /\ \A c \in Callers :
          /\ WF_vars(WriterStep(c))
          /\ WF_vars(CloserStep(c))
          /\ SF_vars(CloseAcquire(c))
    /\ WF_vars(CloseWaiter)

\* C38: a Close that has been called eventually returns, whatever the other
\* callers do: a Write blocked on a full stdin pipe does not keep Close from
\* killing the child and completing.
C38_CloseReturns ==
    \A c \in Callers : (pc[c] = "c_lock") ~> (pc[c] = "idle")

====
